---- MODULE Spec2Model ----
(***************************************************************************)
(* Hotel-booking email pipeline: normalisation, rule-based intent,         *)
(* segmentation, entity extraction, room assembly, group-booking           *)
(* classification, and the stand-alone RulesEngine / BusinessLogic         *)
(* helpers.                                                                *)
(*                                                                         *)
(* Text is a sequence of tokens.  A token is a string: a word, a number,   *)
(* a punctuation mark, or ONE whitespace character (" ", "\t", "\n").      *)
(* Character offsets are sums of token lengths, so every start/end/        *)
(* position of the source is computed in characters.  The regular          *)
(* expressions of the source are evaluated token by token; the vocabulary  *)
(* is chosen so that every match of a source regex begins and ends on a    *)
(* token boundary (the one exception, a context window that cuts a word,   *)
(* is handled in KeywordInWindow).                                         *)
(***************************************************************************)
EXTENDS Integers, Sequences, FiniteSets, TLC

(***************************************************************************)
(* Python values                                                           *)
(***************************************************************************)
\* None for an optional int (counts in the source are never negative).
None == -1
\* None for an optional date; an ISO date string "YYYY-MM-DD" is <<y, m, d>>.
NoDate == << >>

Min(a, b) == IF a < b THEN a ELSE b
Max(a, b) == IF a > b THEN a ELSE b

\* Python truthiness of an optional int: None and 0 are both falsy.
Truthy(n) == n # None /\ n # 0

\* A Python list built by a comprehension or a loop: all elements are
\* computed when the list is built.
List(f) == f \o << >>

\* The elements of a finite set of integers in increasing order.
Sorted(S) ==
  List([k \in 1..Cardinality(S) |->
          CHOOSE i \in S : Cardinality({j \in S : j < i}) = k - 1])

SetMin(S) == CHOOSE x \in S : \A y \in S : x <= y

\* parts[a] + parts[a+1] + ... + parts[b] (str / list concatenation).
RECURSIVE Concat(_, _, _)
Concat(parts, a, b) ==
  IF a > b THEN << >>
  ELSE IF a = b THEN parts[a]
  ELSE Concat(parts, a, (a + b) \div 2) \o Concat(parts, ((a + b) \div 2) + 1, b)

(***************************************************************************)
(* Tokens                                                                  *)
(***************************************************************************)
NumVal ==
  ("0" :> 0) @@ ("1" :> 1) @@ ("2" :> 2) @@ ("3" :> 3) @@ ("4" :> 4) @@
  ("5" :> 5) @@ ("6" :> 6) @@ ("7" :> 7) @@ ("8" :> 8) @@ ("9" :> 9) @@
  ("10" :> 10) @@ ("11" :> 11) @@ ("12" :> 12) @@ ("13" :> 13) @@
  ("14" :> 14) @@ ("15" :> 15) @@ ("16" :> 16) @@ ("17" :> 17) @@
  ("18" :> 18) @@ ("19" :> 19) @@ ("20" :> 20) @@ ("21" :> 21) @@
  ("22" :> 22) @@ ("25" :> 25) @@ ("28" :> 28) @@ ("29" :> 29) @@
  ("30" :> 30) @@ ("31" :> 31) @@ ("32" :> 32) @@ ("40" :> 40) @@
  ("2025" :> 2025) @@ ("2026" :> 2026) @@ ("2027" :> 2027) @@
  ("88421" :> 88421) @@ ("3000000" :> 3000000)

IsNum(tok) == tok \in DOMAIN NumVal
IsWs(tok) == tok \in {" ", "\t", "\n"}
IsBlank(tok) == tok \in {" ", "\t"}

\* The token at index i; "" when i is not an index of the text.
At(text, i) == IF i >= 1 /\ i <= Len(text) THEN text[i] ELSE ""

\* str.lower() on one token (only these tokens of the vocabulary have capitals).
LowerMap ==
  ("Hi" :> "hi") @@ ("Hello" :> "hello") @@ ("I" :> "i") @@ ("I'd" :> "i'd") @@
  ("We" :> "we") @@ ("May" :> "may") @@ ("June" :> "june") @@ ("Jun" :> "jun") @@
  ("Feb" :> "feb") @@ ("Dec" :> "dec") @@
  ("Also" :> "also") @@ ("Additionally" :> "additionally") @@
  ("Furthermore" :> "furthermore") @@ ("First" :> "first") @@
  ("Second" :> "second") @@ ("Third" :> "third") @@ ("Please" :> "please") @@
  ("Book" :> "book") @@ ("Need" :> "need") @@ ("Sent" :> "sent") @@
  ("iPhone" :> "iphone") @@ ("Booking" :> "booking") @@ ("Just" :> "just") @@
  ("How" :> "how") @@ ("Do" :> "do") @@ ("Thanks" :> "thanks") @@
  ("Arrival" :> "arrival") @@ ("Departure" :> "departure") @@
  ("This" :> "this") @@ ("What" :> "what") @@ ("Is" :> "is") @@
  ("Cancel" :> "cancel")

Lower(tok) == IF tok \in DOMAIN LowerMap THEN LowerMap[tok] ELSE tok
LowerText(text) == List([i \in 1..Len(text) |-> Lower(text[i])])

\* "p is a prefix of tok" for the words of the vocabulary (a regex such as
\* adults? or nights? with no trailing \b matches every continuation).
PrefixPairs ==
  { <<"adults", "adult">>, <<"nights", "night">>, <<"kids", "kid">>,
    <<"children", "child">>, <<"guests", "guest">>, <<"people", "peopl">>,
    <<"rooms", "room">>, <<"trips", "trip">>, <<"bookings", "booking">>,
    <<"older", "old">>, <<"suites", "suite">>, <<"singles", "single">>,
    <<"doubles", "double">>, <<"twins", "twin">> }
StartsWith(tok, p) == tok = p \/ <<tok, p>> \in PrefixPairs

\* "s is a substring of tok" (Python's `s in text` restricted to one token).
SubstrPairs ==
  { <<"children", "child">>, <<"kids", "kid">>, <<"booking", "book">>,
    <<"bookings", "book">>, <<"booked", "book">>, <<"reserved", "reserve">>,
    <<"prices", "price">>, <<"rates", "rate">>, <<"separate", "rate">>,
    <<"cancellation", "cancel">>, <<"cancelled", "cancel">> }
Contains(tok, s) == tok = s \/ <<tok, s>> \in SubstrPairs

(***************************************************************************)
(* Character offsets and regex steps                                       *)
(***************************************************************************)
\* len() of tokens a..b.
RECURSIVE LenSum(_, _, _)
LenSum(text, a, b) ==
  IF a > b THEN 0
  ELSE IF a = b THEN Len(text[a])
  ELSE LenSum(text, a, (a + b) \div 2) + LenSum(text, ((a + b) \div 2) + 1, b)
CharLen(text) == LenSum(text, 1, Len(text))

\* Offsets(text)[i] is the character offset where token i starts;
\* Offsets(text)[Len(text)+1] = len(text).
Shifted(left, right) ==
  left \o [k \in 1..Len(right) |-> right[k] + left[Len(left)]]
RECURSIVE EndsOf(_, _, _)
EndsOf(text, a, b) ==
  IF a > b THEN << >>
  ELSE IF a = b THEN <<Len(text[a])>>
  ELSE Shifted(EndsOf(text, a, (a + b) \div 2),
               EndsOf(text, ((a + b) \div 2) + 1, b))
Offsets(text) == <<0>> \o EndsOf(text, 1, Len(text))

\* \s* from token i: the index of the first token at or after i that is not
\* whitespace.
SkipWs(text, i) ==
  IF i > Len(text) THEN i
  ELSE CHOOSE j \in i..(Len(text) + 1) :
         /\ j = Len(text) + 1 \/ ~IsWs(text[j])
         /\ \A k \in i..(j - 1) : IsWs(text[k])

\* \s+ from token i: the index after the run, or 0 when there is none.
Ws1(text, i) == IF IsWs(At(text, i)) THEN SkipWs(text, i) ELSE 0

\* One regex step from token i: the index after the step, or 0 when the step
\* fails or i is 0 (an earlier step failed).
MTok(text, i, S) == IF At(text, i) \in S THEN i + 1 ELSE 0
MLow(text, i, S) == IF Lower(At(text, i)) \in S THEN i + 1 ELSE 0
MOpt(text, i, S) == IF i = 0 THEN 0 ELSE IF At(text, i) \in S THEN i + 1 ELSE i
MNum(text, i) == IF IsNum(At(text, i)) THEN i + 1 ELSE 0
MWs0(text, i) == IF i = 0 THEN 0 ELSE SkipWs(text, i)

\* str.strip() on a token sequence.
LastNonWs(text) ==
  IF \A k \in 1..Len(text) : IsWs(text[k]) THEN 0
  ELSE CHOOSE j \in 1..Len(text) :
         ~IsWs(text[j]) /\ \A k \in (j + 1)..Len(text) : IsWs(text[k])
Strip(text) == SubSeq(text, SkipWs(text, 1), LastNonWs(text))

\* re.finditer: ends[i] is the index after the match that starts at token i
\* (0 when none starts there); matches are taken left to right, not
\* overlapping.  Returns the start indices.
RECURSIVE NonOverlapping(_, _, _, _)
NonOverlapping(ends, starts, k, from) ==
  IF k > Len(starts) THEN << >>
  ELSE IF starts[k] < from THEN NonOverlapping(ends, starts, k + 1, from)
  ELSE <<starts[k]>>
       \o NonOverlapping(ends, starts, k + 1,
                         Max(ends[starts[k]], starts[k] + 1))
FindIter(ends) ==
  NonOverlapping(ends, Sorted({i \in DOMAIN ends : ends[i] # 0}), 1, 1)

(***************************************************************************)
(* Calendar: datetime.strptime / strftime / timedelta arithmetic           *)
(***************************************************************************)
IsLeap(y) == (y % 4 = 0 /\ y % 100 # 0) \/ y % 400 = 0
DaysInMonth(y, m) ==
  IF m = 2 THEN (IF IsLeap(y) THEN 29 ELSE 28)
  ELSE IF m \in {4, 6, 9, 11} THEN 30 ELSE 31
ValidDate(y, m, d) ==
  /\ y >= 1 /\ y <= 9999
  /\ m >= 1 /\ m <= 12
  /\ d >= 1 /\ d <= DaysInMonth(y, m)

DaysBeforeYear(y) ==
  365 * (y - 1) + ((y - 1) \div 4) - ((y - 1) \div 100) + ((y - 1) \div 400)
RECURSIVE DaysBeforeMonth(_, _)
DaysBeforeMonth(y, m) ==
  IF m = 1 THEN 0 ELSE DaysBeforeMonth(y, m - 1) + DaysInMonth(y, m - 1)

\* datetime.strptime(iso, '%Y-%m-%d'), as the proleptic ordinal of the day.
Strptime(iso) == DaysBeforeYear(iso[1]) + DaysBeforeMonth(iso[1], iso[2]) + iso[3]

RECURSIVE YearOf(_, _)
YearOf(n, y) == IF DaysBeforeYear(y + 1) < n THEN YearOf(n, y + 1) ELSE y
RECURSIVE MonthOf(_, _, _)
MonthOf(r, y, m) ==
  IF r > DaysInMonth(y, m) THEN MonthOf(r - DaysInMonth(y, m), y, m + 1)
  ELSE <<y, m, r>>
\* dt.strftime('%Y-%m-%d') of the day with ordinal n.
DateInYear(n, y) == MonthOf(n - DaysBeforeYear(y), y, 1)
Strftime(n) == DateInYear(n, YearOf(n, (n \div 366) + 1))

\* Month names accepted by month_names (matched with re.IGNORECASE).
MonthNum ==
  ("jan" :> 1) @@ ("january" :> 1) @@ ("feb" :> 2) @@ ("february" :> 2) @@
  ("mar" :> 3) @@ ("march" :> 3) @@ ("apr" :> 4) @@ ("april" :> 4) @@
  ("may" :> 5) @@ ("jun" :> 6) @@ ("june" :> 6) @@ ("jul" :> 7) @@
  ("july" :> 7) @@ ("aug" :> 8) @@ ("august" :> 8) @@ ("sep" :> 9) @@
  ("september" :> 9) @@ ("oct" :> 10) @@ ("october" :> 10) @@
  ("nov" :> 11) @@ ("november" :> 11) @@ ("dec" :> 12) @@ ("december" :> 12)
IsMonth(tok) == Lower(tok) \in DOMAIN MonthNum
MMonth(text, i) == IF IsMonth(At(text, i)) THEN i + 1 ELSE 0

\* dateparser.parse("<Month> <day>, <year>"): the date, or None when there
\* is no such day.
ParseMonthDay(monthTok, day, year) ==
  IF ValidDate(year, MonthNum[Lower(monthTok)], day)
  THEN <<year, MonthNum[Lower(monthTok)], day>> ELSE NoDate

(***************************************************************************)
(* Normalizer                                                              *)
(***************************************************************************)
\* The whitespace table of the default configuration.
MaxConsecutiveNewlines == 2
TabToSpaces == 4

\* Pattern tables of the normalisation configuration.  A pattern is a phrase
\* (lower-case tokens, matched ignoring case).
SignaturePatterns == << <<"sent", " ", "from", " ", "my", " ", "iphone">> >>
DisclaimerPatterns ==
  << <<"this", " ", "email", " ", "is", " ", "confidential", ".">> >>
GreetingPatterns == << <<"hi", ",", " ">>, <<"hello", ",", " ">> >>
\* The options of the default configuration, and the same with greeting
\* removal enabled.
DefaultOptions == [remove_greetings |-> FALSE]

\* pattern.match at token i: the index after the match, or 0.
PhraseAt(text, i, phrase) ==
  IF /\ i + Len(phrase) - 1 <= Len(text)
     /\ \A k \in 1..Len(phrase) : Lower(text[i + k - 1]) = phrase[k]
  THEN i + Len(phrase) ELSE 0
PhraseMatches(text, phrase) ==
  FindIter([i \in 1..Len(text) |-> PhraseAt(text, i, phrase)])

\* text[:start] + text[end:] for the match of n tokens that starts at token i.
CutTokens(text, i, n) ==
  SubSeq(text, 1, i - 1) \o SubSeq(text, i + n, Len(text))

\* The loop `for match in reversed(matches)` of one pattern: ms are the match
\* starts (token indices into the text the pattern was searched in), k counts
\* down.  Returns <<text, spans>>.
RECURSIVE RemoveMatches(_, _, _, _, _, _)
RemoveMatches(text, off, ms, k, n, reason) ==
  IF k = 0 THEN <<text, << >>>>
  ELSE LET rest == RemoveMatches(CutTokens(text, ms[k], n), off, ms, k - 1, n,
                                 reason)
       IN  <<rest[1], << <<off[ms[k]], off[ms[k] + n], reason>> >> \o rest[2]>>

\* remove_signatures / remove_disclaimers: every pattern in turn searches the
\* CURRENT text and removes all its matches, last match first.
RECURSIVE RemoveAll(_, _, _, _)
RemoveAll(text, patterns, p, reason) ==
  IF p > Len(patterns) THEN <<text, << >>>>
  ELSE LET ms == PhraseMatches(text, patterns[p])
           one == RemoveMatches(text, Offsets(text), ms, Len(ms),
                                Len(patterns[p]), reason)
           rest == RemoveAll(one[1], patterns, p + 1, reason)
       IN  <<rest[1], one[2] \o rest[2]>>

remove_signatures(text) == RemoveAll(text, SignaturePatterns, 1, "signature")
remove_disclaimers(text) == RemoveAll(text, DisclaimerPatterns, 1, "disclaimer")

\* remove_greetings: the first pattern that matches removes everything up to
\* the end of its first match.
GreetingCut(text, off, i, j) ==
  <<SubSeq(text, j, Len(text)), << <<off[i], off[j], "greeting">> >> >>
RECURSIVE RemoveGreetingFrom(_, _)
RemoveGreetingFrom(text, p) ==
  IF p > Len(GreetingPatterns) THEN <<text, << >>>>
  ELSE LET ms == PhraseMatches(text, GreetingPatterns[p])
       IN  IF ms = << >> THEN RemoveGreetingFrom(text, p + 1)
           ELSE GreetingCut(text, Offsets(text), ms[1],
                            ms[1] + Len(GreetingPatterns[p]))
remove_greetings(text) == RemoveGreetingFrom(text, 1)

\* text.replace('\t', ' ' * tab_to_spaces)
ExpandTabs(text, n) ==
  Concat([i \in 1..Len(text) |->
            IF text[i] = "\t" THEN [k \in 1..n |-> " "] ELSE <<text[i]>>],
         1, Len(text))
\* re.sub(r'[^\S\n]+', ' ', text): every run of blanks becomes one space.
CollapseBlanks(text) ==
  Concat([i \in 1..Len(text) |->
            IF ~IsBlank(text[i]) THEN <<text[i]>>
            ELSE IF IsBlank(At(text, i + 1)) THEN << >> ELSE <<" ">>],
         1, Len(text))
\* re.sub(r'\n{max+1,}', '\n' * max, text): of a run of more than max
\* newlines the first max are kept.
CollapseNewlines(text, max) ==
  Concat([i \in 1..Len(text) |->
            IF /\ text[i] = "\n" /\ i > max
               /\ \A j \in (i - max)..(i - 1) : text[j] = "\n"
            THEN << >> ELSE <<text[i]>>],
         1, Len(text))
\* text.split('\n'): the lines, as token sequences; nl are the indices of the
\* newlines.
LinesBetween(text, nl) ==
  List([k \in 1..(Len(nl) + 1) |->
          SubSeq(text, IF k = 1 THEN 1 ELSE nl[k - 1] + 1,
                       IF k <= Len(nl) THEN nl[k] - 1 ELSE Len(text))])
SplitLines(text) ==
  LinesBetween(text, Sorted({i \in 1..Len(text) : text[i] = "\n"}))
\* '\n'.join(lines)
JoinLines(lines) ==
  Concat([k \in 1..Len(lines) |->
            IF k = 1 THEN lines[1] ELSE <<"\n">> \o lines[k]],
         1, Len(lines))
\* [line.strip() for line in lines]
StripLines(lines) == List([k \in 1..Len(lines) |-> Strip(lines[k])])

normalize_whitespace(text, max_newlines, tab_to_spaces) ==
  JoinLines(StripLines(SplitLines(
    CollapseNewlines(CollapseBlanks(ExpandTabs(text, tab_to_spaces)),
                     max_newlines))))

\* normalize with the disclaimer pass recorded before the signature pass.
NormalizedDisclaimersFirst(sig, disc, greet) ==
  [normalized_text |->
     Strip(normalize_whitespace(greet[1], MaxConsecutiveNewlines, TabToSpaces)),
   spans_removed |-> disc[2] \o sig[2] \o greet[2],
   applied |->
     (IF disc[2] # << >> THEN <<"disclaimer_removal">> ELSE << >>) \o
     (IF sig[2] # << >> THEN <<"signature_removal">> ELSE << >>) \o
     (IF greet[2] # << >> THEN <<"greeting_removal">> ELSE << >>) \o
     <<"whitespace_normalization">>]
\* The dict EmailNormalizer.normalize returns, from the <<text, spans>> of
\* the three removals.
Normalized(sig, disc, greet) ==
  [normalized_text |->
     Strip(normalize_whitespace(greet[1], MaxConsecutiveNewlines, TabToSpaces)),
   spans_removed |-> sig[2] \o disc[2] \o greet[2],
   applied |->
     (IF sig[2] # << >> THEN <<"signature_removal">> ELSE << >>) \o
     (IF disc[2] # << >> THEN <<"disclaimer_removal">> ELSE << >>) \o
     (IF greet[2] # << >> THEN <<"greeting_removal">> ELSE << >>) \o
     <<"whitespace_normalization">>]
AfterDisclaimers(sig, disc, options) ==
  Normalized(sig, disc,
             IF options.remove_greetings THEN remove_greetings(disc[1])
             ELSE <<disc[1], << >>>>)
AfterSignatures(sig, options) ==
  AfterDisclaimers(sig, remove_disclaimers(sig[1]), options)

\* EmailNormalizer.normalize of a normalizer with the given options:
\* [normalized_text, spans_removed, applied].
NormalizeWith(raw_email, options) ==
  IF raw_email = << >>
  THEN [normalized_text |-> << >>, spans_removed |-> << >>, applied |-> << >>]
  ELSE AfterSignatures(remove_signatures(raw_email), options)
\* The same with the default options.
normalize(raw_email) == NormalizeWith(raw_email, DefaultOptions)

(***************************************************************************)
(* IntentClassifier (no learned model loaded: the rule fallback)           *)
(***************************************************************************)
\* `kw in text_lower`: a one-word keyword is a substring of some token; a
\* keyword of several words is a run of tokens (in the vocabulary no token
\* ends in the first word or begins with the last word of such a keyword
\* without being that word).
HasToken(text, s) == \E i \in 1..Len(text) : Contains(text[i], s)
HasPhrase(text, phrase) ==
  \E i \in 1..Len(text) : PhraseAt(text, i, phrase) # 0

\* The keyword lists of _classify_rules, in the order they are tried:
\* <<intent, confidence in hundredths, one-word keywords, phrases>>.
IntentRules ==
  << <<"booking_request", 75, {"book", "reserve"},
       { <<"need", " ", "a", " ", "room">>, <<"looking", " ", "for">>,
         <<"i", " ", "need">>, <<"we", " ", "need">> }>>,
     <<"booking_modification", 75, {"change", "modify"},
       { <<"update", " ", "my", " ", "booking">>,
         <<"update", " ", "my", " ", "reservation">> }>>,
     <<"cancellation", 80, {"cancel", "cancellation"}, {}>>,
     <<"price_inquiry", 70, {"price", "cost", "rate", "quote"},
       { <<"how", " ", "much">> }>>,
     <<"availability_check", 70, {"available", "availability"},
       { <<"do", " ", "you", " ", "have">> }>> >>

RuleMatches(t, rule) ==
  \/ \E s \in rule[3] : HasToken(t, s)
  \/ \E ph \in rule[4] : HasPhrase(t, ph)

RECURSIVE FirstRule(_, _)
FirstRule(t, r) ==
  IF r > Len(IntentRules) THEN [intent |-> "other", confidence |-> 50]
  ELSE IF RuleMatches(t, IntentRules[r])
  THEN [intent |-> IntentRules[r][1], confidence |-> IntentRules[r][2]]
  ELSE FirstRule(t, r + 1)

_classify_rules(text) == FirstRule(LowerText(text), 1)

\* IntentClassifier.classify with self.model None and use_rule_fallback True.
classify(text) == _classify_rules(text) @@ [method |-> "rule"]

(***************************************************************************)
(* EmailSegmenter                                                          *)
(***************************************************************************)
\* re.match(r'^\s*(\d+)[.)]\s+', line)
NumberedLine(line) ==
  Ws1(line, MTok(line, MNum(line, SkipWs(line, 1)), {".", ")"})) # 0

\* One segment dict of the splitters.
Seg(text, start, end, method) ==
  [text |-> Strip(text), start |-> start, end |-> end, method |-> method]
NumberedSeg(segment_text, start) ==
  Seg(segment_text, start, start + CharLen(segment_text), "numbered_list")

\* The loop of _split_by_numbered_lists over lines[k..]: cur is
\* current_segment (a list of lines), start is current_start, inList is
\* in_numbered_list.  Returns the segments, the last one included.
RECURSIVE NumberedLoop(_, _, _, _, _)
NumberedLoop(lines, k, cur, start, inList) ==
  IF k > Len(lines)
  THEN IF inList /\ cur # << >> THEN << NumberedSeg(JoinLines(cur), start) >>
       ELSE << >>
  ELSE IF NumberedLine(lines[k])
       THEN IF cur # << >> /\ inList
            THEN << NumberedSeg(JoinLines(cur), start) >>
                 \o NumberedLoop(lines, k + 1, <<lines[k]>>,
                                 start + CharLen(JoinLines(cur)) + 1, TRUE)
            ELSE NumberedLoop(lines, k + 1, <<lines[k]>>, start, TRUE)
       ELSE NumberedLoop(lines, k + 1, Append(cur, lines[k]), start, inList)

MoreThanOne(segments) == IF Len(segments) > 1 THEN segments ELSE << >>
_split_by_numbered_lists(text) ==
  MoreThanOne(NumberedLoop(SplitLines(text), 1, << >>, 0, FALSE))

\* r'\n\s*<word>\b[,;:]?\s+' (re.IGNORECASE) matched at token i: the index
\* after the match, or 0.
SeparatorAt(text, i, word) ==
  IF text[i] # "\n" THEN 0
  ELSE Ws1(text, MOpt(text, MLow(text, SkipWs(text, i + 1), {word}),
                      {",", ";", ":"}))

\* The loop over the matches of one separator pattern; last is last_end (a
\* token index: the text from token `last` on is still unassigned).
RECURSIVE SeparatorLoop(_, _, _, _, _, _)
SeparatorLoop(text, off, ends, ms, k, last) ==
  IF k > Len(ms)
  THEN IF off[last] < off[Len(text) + 1]
       THEN << Seg(SubSeq(text, last, Len(text)), off[last], off[Len(text) + 1],
                   "separator") >>
       ELSE << >>
  ELSE (IF off[ms[k]] > off[last]
        THEN << Seg(SubSeq(text, last, ms[k] - 1), off[last], off[ms[k]],
                    "separator") >>
        ELSE << >>)
       \o SeparatorLoop(text, off, ends, ms, k + 1, ends[ms[k]])

SeparatorWords == <<"also", "additionally", "furthermore">>

\* The segments one separator pattern gives (<< >> when it has no match).
SeparatorSegments(text, ends, ms) ==
  IF ms = << >> THEN << >>
  ELSE SeparatorLoop(text, Offsets(text), ends, ms, 1, 1)
SeparatorEnds(text, word) ==
  List([i \in 1..Len(text) |-> SeparatorAt(text, i, word)])
SegmentsOfEnds(text, ends) == SeparatorSegments(text, ends, FindIter(ends))

\* The loop over separator_patterns: the first pattern that has a match and
\* yields more than one segment decides.
RECURSIVE SeparatorPatterns(_, _)
OrNextPattern(text, p, segments) ==
  IF Len(segments) > 1 THEN segments ELSE SeparatorPatterns(text, p + 1)
SeparatorPatterns(text, p) ==
  IF p > Len(SeparatorWords) THEN << >>
  ELSE OrNextPattern(text, p,
         SegmentsOfEnds(text, SeparatorEnds(text, SeparatorWords[p])))

_split_by_separators(text) == SeparatorPatterns(text, 1)

\* r'\b(first|second|third)\s+(trip|stay|booking|visit):?' (re.IGNORECASE)
TripWord(text, j) ==
  IF \E w \in {"trip", "stay", "booking", "visit"} :
       StartsWith(Lower(At(text, j)), w)
  THEN j + 1 ELSE 0
TripLabelAt(text, i) ==
  MOpt(text,
       TripWord(text, Ws1(text, MLow(text, i, {"first", "second", "third"}))),
       {":"})

\* A faulty _split_by_trip_labels: every segment runs to the end of the
\* text instead of to the next label.
LabelSegmentsToTheEnd(text, off, ms) ==
  IF Len(ms) >= 2
  THEN List([k \in 1..Len(ms) |->
               Seg(SubSeq(text, ms[k], Len(text)), off[ms[k]],
                   off[Len(text) + 1], "trip_labels")])
  ELSE << >>
\* The body of _split_by_trip_labels, ms being the starts of the matches.
LabelSegments(text, off, ms) ==
  IF Len(ms) >= 2
  THEN List([k \in 1..Len(ms) |->
               Seg(SubSeq(text, ms[k],
                          (IF k + 1 <= Len(ms) THEN ms[k + 1] ELSE Len(text) + 1)
                          - 1),
                   off[ms[k]],
                   off[IF k + 1 <= Len(ms) THEN ms[k + 1] ELSE Len(text) + 1],
                   "trip_labels")])
  ELSE << >>
_split_by_trip_labels(text) ==
  LabelSegments(text, Offsets(text),
                FindIter([i \in 1..Len(text) |-> TripLabelAt(text, i)]))

\* A faulty order of the families: separators before numbered lists.
FirstFamilySeparatorsFirst(numbered, separated, labelled) ==
  IF Len(separated) > 1 THEN separated
  ELSE IF Len(numbered) > 1 THEN numbered
  ELSE IF Len(labelled) > 1 THEN labelled
  ELSE << >>
\* The families in the order _segment_by_rules tries them: the first that
\* gives more than one segment.
FirstFamily(numbered, separated, labelled) ==
  IF Len(numbered) > 1 THEN numbered
  ELSE IF Len(separated) > 1 THEN separated
  ELSE IF Len(labelled) > 1 THEN labelled
  ELSE << >>
_segment_by_rules(text) ==
  FirstFamily(_split_by_numbered_lists(text), _split_by_separators(text),
              _split_by_trip_labels(text))

\* The whole text as one segment.
DefaultSegments(text) ==
  << [text |-> text, start |-> 0, end |-> CharLen(text), method |-> "default"] >>
\* The output format of segment().
OutputFormat(segments) ==
  List([i \in 1..Len(segments) |->
          [segment_id |-> i - 1,
           text |-> segments[i].text,
           start_char |-> segments[i].start,
           end_char |-> segments[i].end,
           method |-> segments[i].method]])
OrDefault(found, text) == IF found = << >> THEN DefaultSegments(text) ELSE found

\* A faulty segment: the intent is not looked at.
segment_any_intent(text, intent) ==
  OutputFormat(OrDefault(_segment_by_rules(text), text))
\* EmailSegmenter.segment
segment(text, intent) ==
  IF intent # "booking_request" THEN << >>
  ELSE OutputFormat(OrDefault(_segment_by_rules(text), text))

(***************************************************************************)
(* EntityExtractor: dates                                                  *)
(***************************************************************************)
\* r'(\d+)[- ]nights?'
NightsP1At(t, i) ==
  /\ i + 2 <= Len(t)
  /\ IsNum(t[i]) /\ t[i + 1] \in {"-", " "} /\ StartsWith(t[i + 2], "night")
\* r'stay(?:ing)? (?:for )?(\d+) nights?': the index of the number, or 0.
NumberOfNights(t, j) ==
  IF /\ j + 2 <= Len(t) /\ IsNum(t[j]) /\ t[j + 1] = " "
     /\ StartsWith(t[j + 2], "night")
  THEN j ELSE 0
NightsP2At(t, i) ==
  IF ~(t[i] \in {"stay", "staying"} /\ At(t, i + 1) = " ") THEN 0
  ELSE NumberOfNights(t, IF At(t, i + 2) = "for" /\ At(t, i + 3) = " "
                         THEN i + 4 ELSE i + 2)
\* r'(\d+)[- ]night stay'
NightsP3At(t, i) ==
  /\ i + 4 <= Len(t)
  /\ IsNum(t[i]) /\ t[i + 1] \in {"-", " "} /\ t[i + 2] = "night"
  /\ t[i + 3] = " " /\ StartsWith(t[i + 4], "stay")

\* EntityExtractor._extract_nights: the first pattern that matches anywhere
\* gives the number of its leftmost match.
_extract_nights(t) ==
  LET m1 == {i \in 1..Len(t) : NightsP1At(t, i)}
      m2 == {i \in 1..Len(t) : NightsP2At(t, i) # 0}
      m3 == {i \in 1..Len(t) : NightsP3At(t, i)}
  IN  IF m1 # {} THEN NumVal[t[SetMin(m1)]]
      ELSE IF m2 # {} THEN NumVal[t[NightsP2At(t, SetMin(m2))]]
      ELSE IF m3 # {} THEN NumVal[t[SetMin(m3)]]
      ELSE None

\* Tokens of the forms YYYY-MM-DD and D/M/YYYY, with their three numbers.
IsoVal ==
  ("2026-05-10" :> <<2026, 5, 10>>) @@ ("2026-05-12" :> <<2026, 5, 12>>) @@
  ("2026-05-15" :> <<2026, 5, 15>>) @@ ("2026-05-20" :> <<2026, 5, 20>>) @@
  ("2026-02-30" :> <<2026, 2, 30>>)
SlashVal ==
  ("05/12/2026" :> <<5, 12, 2026>>) @@ ("15/05/2026" :> <<15, 5, 2026>>) @@
  ("31/31/2026" :> <<31, 31, 2026>>)

\* dateparser.parse of a numeric date: month first; day first when that is
\* the only reading; None when neither is a date.
ParseSlash(v) ==
  IF ValidDate(v[3], v[1], v[2]) THEN <<v[3], v[1], v[2]>>
  ELSE IF ValidDate(v[3], v[2], v[1]) THEN <<v[3], v[2], v[1]>>
  ELSE NoDate

Cand(date, position, rawlen) ==
  [date |-> date, position |-> position, rawlen |-> rawlen]

\* Pattern 1: ISO dates; strptime raises ValueError on a date that does not
\* exist and the match is skipped.
IsoDateAt(text, i) ==
  /\ text[i] \in DOMAIN IsoVal
  /\ ValidDate(IsoVal[text[i]][1], IsoVal[text[i]][2], IsoVal[text[i]][3])
IsoCandidatesAt(text, off, ms) ==
  List([k \in 1..Len(ms) |->
          Cand(Strftime(Strptime(IsoVal[text[ms[k]]])), off[ms[k]],
               Len(text[ms[k]]))])
IsoCandidates(text, off) ==
  IsoCandidatesAt(text, off, Sorted({i \in 1..Len(text) : IsoDateAt(text, i)}))

\* \d{1,2} and \d{4} as one regex step.
MShort(text, i) ==
  IF IsNum(At(text, i)) /\ Len(At(text, i)) <= 2 THEN i + 1 ELSE 0
MYear(text, i) ==
  IF IsNum(At(text, i)) /\ Len(At(text, i)) = 4 THEN i + 1 ELSE 0

\* Pattern 2, r'\b(<month>)\s+(\d{1,2}(?:-\d{1,2})?),?\s+(\d{4})\b', at token
\* i: [end, days, year, month], end = 0 when there is no match.  j is the
\* index of the first day, d2 the index after the second day (0 when the
\* day part is not a range), y the index of the year.
NoMonthDay == [end |-> 0, days |-> << >>, year |-> 0, month |-> ""]
MonthDayMatch(text, i, j, d2, y) ==
  IF MYear(text, y) = 0 THEN NoMonthDay
  ELSE [end |-> y + 1,
        days |-> IF d2 # 0 THEN <<NumVal[text[j]], NumVal[text[j + 2]]>>
                 ELSE <<NumVal[text[j]]>>,
        year |-> NumVal[text[y]],
        month |-> text[i]]
MonthDayYear(text, i, j, d2) ==
  MonthDayMatch(text, i, j, d2,
    Ws1(text, MOpt(text, IF d2 # 0 THEN d2 ELSE MShort(text, j), {","})))
MonthDayDays(text, i, j) ==
  MonthDayYear(text, i, j, MShort(text, MTok(text, MShort(text, j), {"-"})))
MonthDayAt(text, i) == MonthDayDays(text, i, Ws1(text, MMonth(text, i)))

\* The candidates of one Pattern-2 match: one per day that parses.
RECURSIVE DayCandidates(_, _, _, _, _)
DayCandidates(m, d, position, rawlen, acc) ==
  IF d > Len(m.days) THEN acc
  ELSE IF ParseMonthDay(m.month, m.days[d], m.year) # NoDate
  THEN DayCandidates(m, d + 1, position, rawlen,
         Append(acc, Cand(ParseMonthDay(m.month, m.days[d], m.year), position,
                          rawlen)))
  ELSE DayCandidates(m, d + 1, position, rawlen, acc)
MatchCandidates(m, off, i) ==
  DayCandidates(m, 1, off[i], off[m.end] - off[i], << >>)

RECURSIVE MonthDayCandidates(_, _, _, _)
MonthDayCandidates(text, off, ms, k) ==
  IF k > Len(ms) THEN << >>
  ELSE MatchCandidates(MonthDayAt(text, ms[k]), off, ms[k])
       \o MonthDayCandidates(text, off, ms, k + 1)

\* Pattern 2b,
\* r'(?:from\s+)?(<month>)\s+(\d{1,2})\s+to\s+(<month>)\s+(\d{1,2}),?\s*(\d{4})?',
\* from the month token i on: [end, ..., year], year = None when group 5 is
\* empty.  a and e are the indices of the two days, c of the second month,
\* g of the token after ,?\s*.
NoRange ==
  [end |-> 0, month1 |-> "", day1 |-> 0, month2 |-> "", day2 |-> 0,
   year |-> None]
RangeMatch(text, i, a, c, e, g) ==
  IF g = 0 THEN NoRange
  ELSE [end |-> IF MYear(text, g) # 0 THEN g + 1 ELSE g,
        month1 |-> text[i], day1 |-> NumVal[text[a]],
        month2 |-> text[c], day2 |-> NumVal[text[e]],
        year |-> IF MYear(text, g) # 0 THEN NumVal[text[g]] ELSE None]
RangeTail(text, i, a, c, e) ==
  RangeMatch(text, i, a, c, e, MWs0(text, MOpt(text, MShort(text, e), {","})))
RangeSecond(text, i, a, c) ==
  RangeTail(text, i, a, c, Ws1(text, MMonth(text, c)))
RangeFirst(text, i, a) ==
  RangeSecond(text, i, a,
              Ws1(text, MLow(text, Ws1(text, MShort(text, a)), {"to"})))
RangeFromMonth(text, i) == RangeFirst(text, i, Ws1(text, MMonth(text, i)))
RangeAt(text, i) ==
  RangeFromMonth(text, IF Lower(text[i]) = "from" /\ Ws1(text, i + 1) # 0
                       THEN Ws1(text, i + 1) ELSE i)

HasDate(cands, date) == \E k \in 1..Len(cands) : cands[k].date = date
AddUnlessPresent(cands, date, position, rawlen) ==
  IF date # NoDate /\ ~HasDate(cands, date)
  THEN Append(cands, Cand(date, position, rawlen)) ELSE cands

\* The two dates of a Pattern-2b match are added unless a candidate with
\* that date exists; a missing year is datetime.now().year.
AddBoth(cands, m, year, position, rawlen) ==
  AddUnlessPresent(
    AddUnlessPresent(cands, ParseMonthDay(m.month1, m.day1, year), position,
                     rawlen),
    ParseMonthDay(m.month2, m.day2, year), position, rawlen)
AddRange(cands, m, off, i, now_year) ==
  AddBoth(cands, m, IF m.year # None THEN m.year ELSE now_year, off[i],
          off[m.end] - off[i])
RECURSIVE RangeCandidates(_, _, _, _, _, _)
RangeCandidates(text, off, ms, k, now_year, cands) ==
  IF k > Len(ms) THEN cands
  ELSE RangeCandidates(text, off, ms, k + 1, now_year,
         AddRange(cands, RangeAt(text, ms[k]), off, ms[k], now_year))

\* Pattern 3: numeric dates with separators.
RECURSIVE SlashCandidates(_, _, _, _, _)
SlashCandidates(text, off, ms, k, cands) ==
  IF k > Len(ms) THEN cands
  ELSE SlashCandidates(text, off, ms, k + 1,
         AddUnlessPresent(cands, ParseSlash(SlashVal[text[ms[k]]]), off[ms[k]],
                          Len(text[ms[k]])))

\* Pattern 4: the relative phrases, in the order of relative_patterns; each
\* gives at most its first match.
Weekdays ==
  {"monday", "tuesday", "wednesday", "thursday", "friday", "saturday", "sunday"}
NextWeekdayAt(text, i) ==
  MLow(text, Ws1(text, MLow(text, i, {"next"})), Weekdays)
\* One relative pattern: S are the starts of its matches.
AddRelative(text, off, cands, S, date) ==
  IF S = {} THEN cands
  ELSE AddUnlessPresent(cands, date, off[SetMin(S)],
                        IF NextWeekdayAt(text, SetMin(S)) # 0
                        THEN off[NextWeekdayAt(text, SetMin(S))] - off[SetMin(S)]
                        ELSE Len(text[SetMin(S)]))
RelativeCandidates(text, off, ref, cands) ==
  AddRelative(text, off,
    AddRelative(text, off,
      AddRelative(text, off, cands,
                  {i \in 1..Len(text) : Lower(text[i]) = "tonight"},
                  Strftime(ref + 0)),
      {i \in 1..Len(text) : Lower(text[i]) = "tomorrow"}, Strftime(ref + 1)),
    {i \in 1..Len(text) : NextWeekdayAt(text, i) # 0}, Strftime(ref + 7))

\* list.sort(key=position): a stable insertion sort.
RECURSIVE InsertByPosition(_, _)
InsertByPosition(sorted, c) ==
  IF sorted = << >> THEN <<c>>
  ELSE IF sorted[Len(sorted)].position <= c.position THEN Append(sorted, c)
  ELSE Append(InsertByPosition(SubSeq(sorted, 1, Len(sorted) - 1), c),
              sorted[Len(sorted)])
RECURSIVE SortByPosition(_, _, _)
SortByPosition(cands, k, acc) ==
  IF k > Len(cands) THEN acc
  ELSE SortByPosition(cands, k + 1, InsertByPosition(acc, cands[k]))

\* The candidates of the four patterns, in the order they are appended.
CandidatesAt(text, off, reference_date, now_year) ==
  RelativeCandidates(text, off, Strptime(reference_date),
    SlashCandidates(text, off,
      Sorted({i \in 1..Len(text) : text[i] \in DOMAIN SlashVal}), 1,
      RangeCandidates(text, off,
        FindIter([i \in 1..Len(text) |-> RangeAt(text, i).end]), 1, now_year,
        IsoCandidates(text, off)
        \o MonthDayCandidates(text, off,
             FindIter([i \in 1..Len(text) |-> MonthDayAt(text, i).end]), 1))))

\* EntityExtractor._find_date_candidates
_find_date_candidates(text, reference_date, now_year) ==
  SortByPosition(CandidatesAt(text, Offsets(text), reference_date, now_year),
                 1, << >>)

\* ARRIVAL_KEYWORDS and DEPARTURE_KEYWORDS: one entry per regex, each the set
\* of token phrases the regex matches.
ARRIVAL_KEYWORDS ==
  << {<<"arriving">>, <<"arrival">>, <<"arrive">>},
     {<<"checkin">>, <<"check", "-", "in">>, <<"check", " ", "in">>},
     {<<"from">>},
     {<<"starting">>},
     {<<"begin">>, <<"beginning">>} >>
DEPARTURE_KEYWORDS ==
  << {<<"depart">>, <<"departing">>, <<"departure">>},
     {<<"checkout">>, <<"check", "-", "out">>, <<"check", " ", "out">>},
     {<<"until">>, <<"til">>},
     {<<"leaving">>, <<"leave">>},
     {<<"ending">>} >>
\* A word of the vocabulary of which the window may show only characters
\* [a, b), and that part is itself matched by the regex: <<token, a, b>>.
ArrivalCuts == << {}, {}, {}, {}, {<<"beginning", 0, 5>>} >>
DepartureCuts ==
  << {<<"departing", 0, 6>>, <<"departure", 0, 6>>}, {}, {<<"until", 2, 5>>},
     {}, {} >>

\* re.search(pattern, text_lower[start:end]) for one keyword regex: a phrase
\* lying inside the window, or a word cut by the window to a keyword.
KeywordInWindow(t, off, start, end, phrases, cuts) ==
  \/ \E i \in 1..Len(t) : \E ph \in phrases :
        /\ off[i] >= start
        /\ i + Len(ph) - 1 <= Len(t)
        /\ off[i + Len(ph)] <= end
        /\ PhraseAt(t, i, ph) # 0
  \/ \E i \in 1..Len(t) : \E c \in cuts :
        /\ t[i] = c[1]
        /\ Max(start, off[i]) = off[i] + c[2]
        /\ Min(end, off[i + 1]) = off[i] + c[3]

KeywordScore(t, off, start, end, keywords, cuts) ==
  Cardinality({p \in 1..Len(keywords) :
                 KeywordInWindow(t, off, start, end, keywords[p], cuts[p])})

\* The width of the context window on either side of a date, in characters.
ContextChars == 50

\* A faulty iteration: the score is added to 0.5 as it stands, neither
\* scaled by 0.1 nor capped.
ClassifiedUnscaled(arrival_dates, departure_dates, date, arrival_score, departure_score) ==
  IF arrival_score > departure_score
  THEN <<Append(arrival_dates,
                [date |-> date, confidence |-> 5 + 10 * arrival_score]),
         departure_dates>>
  ELSE IF departure_score > arrival_score
  THEN <<arrival_dates,
         Append(departure_dates,
                [date |-> date, confidence |-> 5 + 10 * departure_score])>>
  ELSE IF arrival_dates = << >>
  THEN <<<<[date |-> date, confidence |-> 5]>>, departure_dates>>
  ELSE IF departure_dates = << >>
  THEN <<arrival_dates, <<[date |-> date, confidence |-> 5]>>>>
  ELSE <<arrival_dates, departure_dates>>
\* A faulty iteration: a tie always gives an arrival.
ClassifiedTiesToArrival(arrival_dates, departure_dates, date, arrival_score, departure_score) ==
  IF arrival_score > departure_score
  THEN <<Append(arrival_dates,
                [date |-> date, confidence |-> Min(9, 5 + arrival_score)]),
         departure_dates>>
  ELSE IF departure_score > arrival_score
  THEN <<arrival_dates,
         Append(departure_dates,
                [date |-> date, confidence |-> Min(9, 5 + departure_score)])>>
  ELSE <<Append(arrival_dates, [date |-> date, confidence |-> 5]),
         departure_dates>>
\* One iteration of the loop of _classify_dates: <<arrival_dates,
\* departure_dates>> after the candidate with this date and these scores
\* (confidences are in tenths).
Classified(arrival_dates, departure_dates, date, arrival_score, departure_score) ==
  IF arrival_score > departure_score
  THEN <<Append(arrival_dates,
                [date |-> date, confidence |-> Min(9, 5 + arrival_score)]),
         departure_dates>>
  ELSE IF departure_score > arrival_score
  THEN <<arrival_dates,
         Append(departure_dates,
                [date |-> date, confidence |-> Min(9, 5 + departure_score)])>>
  ELSE IF arrival_dates = << >>
  THEN <<<<[date |-> date, confidence |-> 5]>>, departure_dates>>
  ELSE IF departure_dates = << >>
  THEN <<arrival_dates, <<[date |-> date, confidence |-> 5]>>>>
  ELSE <<arrival_dates, departure_dates>>
ClassifyIn(t, off, both, c, start, end) ==
  Classified(both[1], both[2], c.date,
             KeywordScore(t, off, start, end, ARRIVAL_KEYWORDS, ArrivalCuts),
             KeywordScore(t, off, start, end, DEPARTURE_KEYWORDS, DepartureCuts))
ClassifyOne(t, off, both, c) ==
  ClassifyIn(t, off, both, c, Max(0, c.position - ContextChars),
             Min(off[Len(t) + 1], c.position + c.rawlen + ContextChars))
RECURSIVE ClassifyLoop(_, _, _, _, _)
ClassifyLoop(t, off, cands, k, both) ==
  IF k > Len(cands) THEN both
  ELSE ClassifyLoop(t, off, cands, k + 1, ClassifyOne(t, off, both, cands[k]))

\* list.sort(key=confidence, reverse=True): stable, highest first.
RECURSIVE InsertByConfidence(_, _)
InsertByConfidence(sorted, c) ==
  IF sorted = << >> THEN <<c>>
  ELSE IF sorted[Len(sorted)].confidence >= c.confidence THEN Append(sorted, c)
  ELSE Append(InsertByConfidence(SubSeq(sorted, 1, Len(sorted) - 1), c),
              sorted[Len(sorted)])
RECURSIVE SortByConfidence(_, _, _)
SortByConfidence(ds, k, acc) ==
  IF k > Len(ds) THEN acc
  ELSE SortByConfidence(ds, k + 1, InsertByConfidence(acc, ds[k]))
SortBoth(both) ==
  <<SortByConfidence(both[1], 1, << >>), SortByConfidence(both[2], 1, << >>)>>

\* EntityExtractor._classify_dates
_classify_dates(text, candidates) ==
  SortBoth(ClassifyLoop(LowerText(text), Offsets(text), candidates, 1,
                        <<<< >>, << >>>>))

\* The ordinal of datetime.max, 9999-12-31: a datetime past it, or before
\* 0001-01-01, raises OverflowError (and so does a timedelta of more days
\* than timedelta.max, which is more than that range).
MaxOrdinal == Strptime(<<9999, 12, 31>>)
\* A call that ended with an exception, in place of its return value.
Raised(exception) == [raised |-> exception]
HasRaised(value) == "raised" \in DOMAIN value

\* EntityExtractor._fill_missing_date_field
_fill_missing_date_field(result) ==
  IF result.arrival_date # NoDate /\ result.departure_date # NoDate
     /\ ~Truthy(result.nights)
  THEN IF Strptime(result.departure_date) - Strptime(result.arrival_date) > 0
       THEN [result EXCEPT
               !.nights = Strptime(result.departure_date)
                          - Strptime(result.arrival_date),
               !.confidence.nights = 9]
       ELSE result
  ELSE IF result.arrival_date # NoDate /\ Truthy(result.nights)
          /\ result.departure_date = NoDate
  THEN IF Strptime(result.arrival_date) + result.nights > MaxOrdinal
       THEN Raised("OverflowError")
       ELSE [result EXCEPT
               !.departure_date =
                  Strftime(Strptime(result.arrival_date) + result.nights),
               !.confidence.departure_date = 8]
  ELSE IF result.departure_date # NoDate /\ Truthy(result.nights)
          /\ result.arrival_date = NoDate
  THEN IF Strptime(result.departure_date) - result.nights < 1
       THEN Raised("OverflowError")
       ELSE [result EXCEPT
               !.arrival_date =
                  Strftime(Strptime(result.departure_date) - result.nights),
               !.confidence.arrival_date = 8]
  ELSE result

\* The result dict of _extract_dates after the nights were extracted.
DatesWithNights(nights) ==
  [arrival_date |-> NoDate, departure_date |-> NoDate,
   nights |-> IF Truthy(nights) THEN nights ELSE None,
   confidence |-> [arrival_date |-> 0, departure_date |-> 0,
                   nights |-> IF Truthy(nights) THEN 10 ELSE 0]]
\* "Take most confident dates".
WithArrival(result, arrival_dates) ==
  IF arrival_dates = << >> THEN result
  ELSE [result EXCEPT !.arrival_date = arrival_dates[1].date,
                      !.confidence.arrival_date = arrival_dates[1].confidence]
WithDeparture(result, departure_dates) ==
  IF departure_dates = << >> THEN result
  ELSE [result EXCEPT !.departure_date = departure_dates[1].date,
                      !.confidence.departure_date = departure_dates[1].confidence]
WithDates(result, classified) ==
  _fill_missing_date_field(
    WithDeparture(WithArrival(result, classified[1]), classified[2]))
DatesFrom(text, result, date_candidates) ==
  IF date_candidates = << >> THEN result
  ELSE WithDates(result, _classify_dates(text, date_candidates))

\* EntityExtractor._extract_dates
_extract_dates(text, reference_date, now_year) ==
  DatesFrom(text, DatesWithNights(_extract_nights(LowerText(text))),
            _find_date_candidates(text, reference_date, now_year))

(***************************************************************************)
(* EntityExtractor: guests                                                 *)
(***************************************************************************)
\* r'(\d+)\s+<word>...' at token i (the word may continue): TRUE on a match.
CountBefore(t, i, word) ==
  IsNum(t[i]) /\ StartsWith(At(t, Ws1(t, i + 1)), word)
\* re.search of that pattern: the number of the leftmost match, or None.
NumberAtFirst(t, S) == IF S = {} THEN None ELSE NumVal[t[SetMin(S)]]
FirstCount(t, word) ==
  NumberAtFirst(t, {i \in 1..Len(t) : CountBefore(t, i, word)})

SoloPhrases ==
  << <<"just", " ", "me">>, <<"solo">>, <<"alone">>, <<"1", " ", "person">>,
     <<"one", " ", "person">>, <<"single", " ", "occupancy">> >>

\* r'we are (\d+)': the number of the leftmost match, or None.
WeAreAt(t, i) ==
  PhraseAt(t, i, <<"we", " ", "are", " ">>) # 0 /\ IsNum(At(t, i + 4))
WeAreFirst(t, S) == IF S = {} THEN None ELSE NumVal[t[SetMin(S) + 4]]
WeAre(t) == WeAreFirst(t, {i \in 1..Len(t) : WeAreAt(t, i)})

\* 'child' not in text and 'kid' not in text, negated.
MentionsChild(t) == HasToken(t, "child") \/ HasToken(t, "kid")

\* r'\b(book|reserve|need|want)\s+(a|one)\s+room\b'
BookingPhraseAt(t, i) ==
  /\ t[i] \in {"book", "reserve", "need", "want"}
  /\ At(t, Ws1(t, MTok(t, Ws1(t, i + 1), {"a", "one"}))) = "room"
BookingPhrase(t) == \E i \in 1..Len(t) : BookingPhraseAt(t, i)

\* A faulty _extract_adult_count: the default of one adult for a singular
\* booking phrase is tried before "we are N".
_extract_adult_count_default_first(t) ==
  IF FirstCount(t, "adult") # None THEN FirstCount(t, "adult")
  ELSE IF FirstCount(t, "peopl") # None THEN FirstCount(t, "peopl")
  ELSE IF FirstCount(t, "guest") # None THEN FirstCount(t, "guest")
  ELSE IF \E p \in 1..Len(SoloPhrases) : HasPhrase(t, SoloPhrases[p]) THEN 1
  ELSE IF ~MentionsChild(t) /\ BookingPhrase(t) THEN 1
  ELSE IF WeAre(t) # None /\ ~MentionsChild(t) THEN WeAre(t)
  ELSE None
\* EntityExtractor._extract_adult_count (t is text_lower)
_extract_adult_count(t) ==
  IF FirstCount(t, "adult") # None THEN FirstCount(t, "adult")
  ELSE IF FirstCount(t, "peopl") # None THEN FirstCount(t, "peopl")
  ELSE IF FirstCount(t, "guest") # None THEN FirstCount(t, "guest")
  ELSE IF \E p \in 1..Len(SoloPhrases) : HasPhrase(t, SoloPhrases[p]) THEN 1
  ELSE IF WeAre(t) # None /\ ~MentionsChild(t) THEN WeAre(t)
  ELSE IF ~MentionsChild(t) /\ BookingPhrase(t) THEN 1
  ELSE None

Child(age) == [age |-> age]

\* re.finditer(r'\d+', ages_str): the numbers of tokens i..j-1, in order.
NumbersAt(t, ms) == List([k \in 1..Len(ms) |-> NumVal[t[ms[k]]]])
NumbersIn(t, i, j) == NumbersAt(t, Sorted({k \in i..(j - 1) : IsNum(t[k])}))
\* The index after the run [0-9,\s]* that starts at i.
IsAgeChar(tok) == IsNum(tok) \/ tok = "," \/ IsWs(tok)
SkipAges(t, i) ==
  CHOOSE j \in i..(Len(t) + 1) :
    /\ ~IsAgeChar(At(t, j))
    /\ \A k \in i..(j - 1) : IsAgeChar(t[k])

\* r'(\d+)\s+(?:children|kids?)\s*\((?:ages?\s*)?([0-9,\s]+)\)' at token i:
\* [ok, count, ages].  a is the index where group 2 starts, r the index
\* after it.
NoAges == [ok |-> FALSE, count |-> 0, ages |-> << >>]
AgesMatch(t, i, a, r) ==
  IF r > a /\ At(t, r) = ")"
  THEN [ok |-> TRUE, count |-> NumVal[t[i]], ages |-> NumbersIn(t, a, r)]
  ELSE NoAges
AgesFrom(t, i, a) == IF a = 0 THEN NoAges ELSE AgesMatch(t, i, a, SkipAges(t, a))
AgesOpen(t, i, l) ==
  AgesFrom(t, i, IF At(t, l) \in {"age", "ages"} THEN SkipWs(t, l + 1) ELSE l)
ChildrenWithAgesAt(t, i) ==
  IF ~IsNum(t[i]) THEN NoAges
  ELSE AgesOpen(t, i,
         MTok(t, MWs0(t, MTok(t, Ws1(t, i + 1), {"children", "kid", "kids"})),
              {"("}))

\* r'\((?:age\s*)?(\d+)\)' at token j: the index after it, or 0.
ParenAgeFrom(t, a) ==
  IF IsNum(At(t, a)) /\ At(t, a + 1) = ")" THEN a + 2 ELSE 0
ParenAgeAt(t, j) ==
  IF At(t, j) # "(" THEN 0
  ELSE ParenAgeFrom(t, IF At(t, j + 1) = "age" THEN SkipWs(t, j + 2) ELSE j + 1)
\* r'(?:child|kid).*?\((?:age\s*)?(\d+)\)' from token i: the first bracketed
\* age at j > i with no newline between, as <<j, end>>, or <<0, 0>>.
FirstParenAge(t, S) ==
  IF S = {} THEN <<0, 0>> ELSE <<SetMin(S), ParenAgeAt(t, SetMin(S))>>
LazyParenAge(t, i) ==
  FirstParenAge(t, {j \in i..Len(t) :
                      /\ ParenAgeAt(t, j) # 0
                      /\ \A k \in i..(j - 1) : t[k] # "\n"})
IndividualAgeAt(t, i) ==
  IF Contains(t[i], "child") \/ Contains(t[i], "kid")
  THEN LazyParenAge(t, i + 1) ELSE <<0, 0>>

\* r'(\d+)\s*year\s*old' at token i.
YearOldAt(t, i) ==
  /\ IsNum(t[i])
  /\ StartsWith(At(t, MWs0(t, MTok(t, SkipWs(t, i + 1), {"year"}))), "old")

\* r'(\d+)\s+(?:children|kids?)' at token i.
ChildCountAt(t, i) == CountBefore(t, i, "children") \/ CountBefore(t, i, "kid")

\* Pattern 2: count children with no age.
NoAgeChildren(n) == List([k \in 1..Max(0, n) |-> Child(None)])
\* Pattern 3: one child per match, ms the starts of the matches.
RECURSIVE IndividualAges(_, _, _, _)
IndividualAges(t, ms, k, children) ==
  IF k > Len(ms) THEN children
  ELSE IndividualAges(t, ms, k + 1,
         Append(children, Child(NumVal[t[IndividualAgeAt(t, ms[k])[2] - 2]])))
\* Pattern 4: ages under 18 that no child has yet, ms the starts of the
\* matches.
RECURSIVE YearOlds(_, _, _, _)
YearOlds(t, ms, k, children) ==
  IF k > Len(ms) THEN children
  ELSE IF NumVal[t[ms[k]]] < 18
          /\ ~(\E c \in 1..Len(children) : children[c].age = NumVal[t[ms[k]]])
  THEN YearOlds(t, ms, k + 1, Append(children, Child(NumVal[t[ms[k]]])))
  ELSE YearOlds(t, ms, k + 1, children)

\* The branch of _extract_children taken when Pattern 1 matched with m.
ChildrenOf(m) ==
  List([k \in 1..Len(m.ages) |-> Child(m.ages[k])])
  \o NoAgeChildren(m.count - Len(m.ages))
\* The else branch.
ChildrenWithoutList(t) ==
  YearOlds(t, Sorted({i \in 1..Len(t) : YearOldAt(t, i)}), 1,
    IndividualAges(t,
      FindIter([i \in 1..Len(t) |-> IndividualAgeAt(t, i)[2]]), 1,
      NoAgeChildren(NumberAtFirst(t, {i \in 1..Len(t) : ChildCountAt(t, i)}))))
ChildrenFrom(t, S) ==
  IF S # {} THEN ChildrenOf(ChildrenWithAgesAt(t, SetMin(S)))
  ELSE ChildrenWithoutList(t)

\* EntityExtractor._extract_children (t is text_lower)
_extract_children(t) ==
  ChildrenFrom(t, {i \in 1..Len(t) : ChildrenWithAgesAt(t, i).ok})

GuestResult(adults, children) ==
  [adults |-> adults,
   children |-> children,
   total_guests |-> IF adults # None THEN adults + Len(children) ELSE None]
GuestsOf(t) == GuestResult(_extract_adult_count(t), _extract_children(t))
\* EntityExtractor._extract_guests
_extract_guests(text) == GuestsOf(LowerText(text))

(***************************************************************************)
(* EntityExtractor: room types                                             *)
(***************************************************************************)
\* ROOM_TYPES in dict order: <<canonical type, <<alias phrase, ...>>>>.
ROOM_TYPES ==
  << <<"single", << <<"single">>, <<"one", " ", "person">>, <<"1", " ", "person">> >> >>,
     <<"double", << <<"double">>, <<"two", " ", "people">>, <<"2", " ", "people">> >> >>,
     <<"twin", << <<"twin">> >> >>,
     <<"suite", << <<"suite">> >> >>,
     <<"family", << <<"family">> >> >>,
     <<"king", << <<"king">> >> >>,
     <<"queen", << <<"queen">> >> >>,
     <<"deluxe", << <<"deluxe">> >> >>,
     <<"standard", << <<"standard">> >> >> >>

\* The alias without its \b anchors (pattern[2:-2]): the last word may
\* continue.  The index after the alias, or 0.
OpenPhraseAt(t, i, phrase) ==
  IF /\ i >= 1
     /\ i + Len(phrase) - 1 <= Len(t)
     /\ \A k \in 1..(Len(phrase) - 1) : t[i + k - 1] = phrase[k]
     /\ StartsWith(t[i + Len(phrase) - 1], phrase[Len(phrase)])
  THEN i + Len(phrase) ELSE 0
\* (?:\s+rooms?)? from index e, the end of the alias.
OptionalRooms(t, e) ==
  IF e = 0 THEN 0
  ELSE IF StartsWith(At(t, Ws1(t, e)), "room") THEN Ws1(t, e) + 1
  ELSE e
\* rf'(\d+)\s+{pattern[2:-2]}(?:\s+rooms?)?' at token i: the index after the
\* match, or 0.
QuantityAt(t, i, phrase) ==
  IF ~IsNum(t[i]) THEN 0
  ELSE OptionalRooms(t, OpenPhraseAt(t, Ws1(t, i + 1), phrase))

Room(room_type, quantity, confidence) ==
  [room_type |-> room_type, quantity |-> quantity, confidence |-> confidence]

\* The body of the inner loop for one alias of one canonical type, matches
\* being the starts of the matches of the quantity pattern.
RoomsOfMatches(t, canonical_type, phrase, rooms, matches) ==
  IF matches # << >>
  THEN rooms \o List([k \in 1..Len(matches) |->
                        Room(canonical_type, NumVal[t[matches[k]]], 9)])
  ELSE IF HasPhrase(t, phrase)
          /\ ~(\E r \in 1..Len(rooms) : rooms[r].room_type = canonical_type)
  THEN Append(rooms, Room(canonical_type, 1, 7))
  ELSE rooms
RoomsOfPattern(t, canonical_type, phrase, rooms) ==
  RoomsOfMatches(t, canonical_type, phrase, rooms,
                 FindIter([i \in 1..Len(t) |-> QuantityAt(t, i, phrase)]))

RECURSIVE RoomsLoop(_, _, _, _)
RoomsLoop(t, ty, p, rooms) ==
  IF ty > Len(ROOM_TYPES) THEN rooms
  ELSE IF p > Len(ROOM_TYPES[ty][2]) THEN RoomsLoop(t, ty + 1, 1, rooms)
  ELSE RoomsLoop(t, ty, p + 1,
         RoomsOfPattern(t, ROOM_TYPES[ty][1], ROOM_TYPES[ty][2][p], rooms))

\* EntityExtractor._extract_room_types
_extract_room_types(text) == RoomsLoop(LowerText(text), 1, 1, << >>)

\* EntityExtractor.extract; reference_date is self.reference_date and
\* now_year is datetime.now().year at the time of the call.
ExtractedWith(text, dates) ==
  IF HasRaised(dates) THEN dates
  ELSE [dates |-> dates,
        guests |-> _extract_guests(text),
        room_types |-> _extract_room_types(text)]
extract(text, reference_date, now_year) ==
  ExtractedWith(text, _extract_dates(text, reference_date, now_year))

(***************************************************************************)
(* RulesEngine                                                             *)
(***************************************************************************)
\* A datetime.date is the ordinal of the day; None is NoDay.  A date is
\* always truthy.
NoDay == 0

\* RulesEngine.resolve_dates
resolve_dates(arrival, departure, nights) ==
  IF arrival # NoDay /\ Truthy(nights) /\ departure = NoDay
  THEN [arrival_date |-> arrival, departure_date |-> arrival + nights,
        nights |-> nights, resolution_method |-> "arrival_plus_nights"]
  ELSE IF arrival # NoDay /\ departure # NoDay /\ ~Truthy(nights)
  THEN [arrival_date |-> arrival, departure_date |-> departure,
        nights |-> departure - arrival, resolution_method |-> "date_diff"]
  ELSE IF arrival # NoDay /\ departure # NoDay /\ Truthy(nights)
  THEN [arrival_date |-> arrival, departure_date |-> departure,
        nights |-> IF departure - arrival # nights THEN departure - arrival
                   ELSE nights,
        resolution_method |-> "all_present_validated"]
  ELSE [arrival_date |-> arrival, departure_date |-> departure,
        nights |-> nights, resolution_method |-> "insufficient_data"]

\* a <= b on two ISO date strings (str comparison, character by character:
\* the fields are zero-padded, so it compares year, then month, then day).
IsoLeq(a, b) ==
  \/ a[1] < b[1]
  \/ a[1] = b[1] /\ a[2] < b[2]
  \/ a[1] = b[1] /\ a[2] = b[2] /\ a[3] <= b[3]
DepartureMessage == <<"Departure date must be after arrival date">>
RoomMessage(i) == <<"Room", i, "No guests specified">>
\* The loop of validate_booking over segment["rooms"], from room k on
\* (enumerate counts from 0); a room has adults (None or a count) and
\* nchildren = len(room["children"]).
RECURSIVE RoomErrors(_, _)
RoomErrors(rooms, k) ==
  IF k > Len(rooms) THEN << >>
  ELSE (IF (IF Truthy(rooms[k].adults) THEN rooms[k].adults ELSE 0)
             + rooms[k].nchildren = 0
        THEN <<RoomMessage(k - 1)>> ELSE << >>)
       \o RoomErrors(rooms, k + 1)
\* A faulty validate_booking: a departure on the day of arrival passes.
validate_booking_same_day_passes(seg) ==
  (IF /\ seg.arrival_date # NoDate /\ seg.departure_date # NoDate
      /\ IsoLeq(seg.departure_date, seg.arrival_date)
      /\ seg.departure_date # seg.arrival_date
   THEN <<DepartureMessage>> ELSE << >>)
  \o RoomErrors(seg.rooms, 1)
\* RulesEngine.validate_booking: the returned list of messages.
validate_booking(seg) ==
  (IF /\ seg.arrival_date # NoDate /\ seg.departure_date # NoDate
      /\ IsoLeq(seg.departure_date, seg.arrival_date)
   THEN <<DepartureMessage>> ELSE << >>)
  \o RoomErrors(seg.rooms, 1)

(***************************************************************************)
(* Configuration and BusinessLogic                                         *)
(***************************************************************************)
\* dict.get(key, default) on the group_booking table of the configuration.
Get(table, key, default) == IF key \in DOMAIN table THEN table[key] ELSE default

DefaultMinRooms == 7
DefaultMinGuests == 15
DefaultRoomThreshold == 7
DefaultGuestThreshold == 15

\* The loop of BusinessLogic.is_group_booking over segment["rooms"]; a room
\* has adults (None or a count) and nchildren = len(room["children"]).
RECURSIVE SumGuests(_, _)
SumGuests(rooms, k) ==
  IF k > Len(rooms) THEN 0
  ELSE (IF Truthy(rooms[k].adults) THEN rooms[k].adults ELSE 0)
       + rooms[k].nchildren + SumGuests(rooms, k + 1)
\* A faulty is_group_booking: the thresholds themselves do not count.
is_group_booking_strict(rooms, group_config) ==
  \/ Len(rooms) > Get(group_config, "room_threshold", DefaultRoomThreshold)
  \/ SumGuests(rooms, 1) > Get(group_config, "guest_threshold", DefaultGuestThreshold)
\* BusinessLogic.is_group_booking
is_group_booking(rooms, group_config) ==
  \/ Len(rooms) >= Get(group_config, "room_threshold", DefaultRoomThreshold)
  \/ SumGuests(rooms, 1) >= Get(group_config, "guest_threshold", DefaultGuestThreshold)

DefaultChildAdultAge == 12
\* BusinessLogic.classify_guest_age, for an age that is a number.
classify_guest_age(age, hotel_config) ==
  IF age < Get(hotel_config, "child_adult_age", DefaultChildAdultAge)
  THEN "child" ELSE "adult"
\* child["classification"] = ...: the child dict with the key set.
WithClassification(child, classification) ==
  [key \in DOMAIN child \cup {"classification"} |->
     IF key = "classification" THEN classification ELSE child[key]]
\* The inner loop of enrich_segment over one children list, from child k on:
\* the list as the loop leaves it, and the exception that ended it.  An age
\* of None makes `age < threshold` raise TypeError.
RECURSIVE ClassifyChildren(_, _, _)
ClassifyChildren(children, k, hotel_config) ==
  IF k > Len(children) THEN [children |-> children, raised |-> ""]
  ELSE IF "age" \notin DOMAIN children[k]
  THEN ClassifyChildren(children, k + 1, hotel_config)
  ELSE IF children[k].age = None
  THEN [children |-> children, raised |-> "TypeError"]
  ELSE ClassifyChildren(
         [children EXCEPT
            ![k] = WithClassification(@, classify_guest_age(@.age, hotel_config))],
         k + 1, hotel_config)
\* The outer loop over enriched["rooms"], from room r on: the heap of
\* children lists as the loops leave it, and the exception that ended them.
\* The copy is shallow: the rooms and their children are the caller's objects.
RECURSIVE EnrichRooms(_, _, _, _)
EnrichRoom(rooms, r, heap_lists, hotel_config, classified) ==
  IF classified.raised # ""
  THEN [lists |-> [heap_lists EXCEPT ![rooms[r].children] = classified.children],
        raised |-> classified.raised]
  ELSE EnrichRooms(rooms, r + 1,
                   [heap_lists EXCEPT ![rooms[r].children] = classified.children],
                   hotel_config)
EnrichRooms(rooms, r, heap_lists, hotel_config) ==
  IF r > Len(rooms) THEN [lists |-> heap_lists, raised |-> ""]
  ELSE EnrichRoom(rooms, r, heap_lists, hotel_config,
                  ClassifyChildren(heap_lists[rooms[r].children], 1, hotel_config))
\* segment["rooms"] as is_group_booking reads it.
RoomsRead(rooms, heap_lists) ==
  List([r \in 1..Len(rooms) |->
          [adults |-> rooms[r].adults,
           nchildren |-> Len(heap_lists[rooms[r].children])]])
\* enriched = segment.copy(); enriched["is_group_booking"] = ...
EnrichedCopy(seg, heap_lists, hotel_config) ==
  [key \in DOMAIN seg \cup {"is_group_booking"} |->
     IF key = "is_group_booking"
     THEN is_group_booking(RoomsRead(seg.rooms, heap_lists),
                           Get(hotel_config, "group_booking", << >>))
     ELSE seg[key]]
EnrichOutcome(enriched, looped) ==
  [enriched |-> enriched, lists |-> looped.lists, raised |-> looped.raised]
\* BusinessLogic.enrich_segment: the returned dict, the heap after the call
\* and the exception raised, "" when the call returns.
enrich_segment(seg, heap_lists, hotel_config) ==
  EnrichOutcome(EnrichedCopy(seg, heap_lists, hotel_config),
                EnrichRooms(seg.rooms, 1, heap_lists, hotel_config))

(***************************************************************************)
(* HotelEmailPipeline                                                      *)
(***************************************************************************)
\* room_type of a room that has none (Python None).
NoType == "None"

\* A faulty _calculate_total_guests: the children are not counted.
_calculate_total_guests_adults_only(adults, nchildren) ==
  IF adults = None THEN None ELSE adults
\* HotelEmailPipeline._calculate_total_guests (nchildren = len(children))
_calculate_total_guests(adults, nchildren) ==
  IF adults = None THEN None ELSE adults + nchildren

\* One room dict of _assemble_rooms.  children is a REFERENCE to the list
\* object the extractor built; every room receives that same reference.
AssembledRoom(room_type, quantity, adults, children, nchildren) ==
  [room_type |-> room_type, quantity |-> quantity, adults |-> adults,
   children |-> children,
   total_guests |-> _calculate_total_guests(adults, nchildren)]
AssembleFrom(room_types, adults, children, nchildren) ==
  IF room_types = << >>
  THEN IF adults # None \/ nchildren > 0
       THEN <<AssembledRoom(NoType, 1, adults, children, nchildren)>>
       ELSE << >>
  ELSE List([k \in 1..Len(room_types) |->
               AssembledRoom(room_types[k].room_type, room_types[k].quantity,
                             adults, children, nchildren)])
\* A faulty _assemble_rooms: no room is made up when no type was found.
_assemble_rooms_types_only(entities, heap_lists) ==
  IF entities.room_types = << >> THEN << >>
  ELSE AssembleFrom(entities.room_types, entities.guests.adults,
                    entities.guests.children,
                    Len(heap_lists[entities.guests.children]))
\* HotelEmailPipeline._assemble_rooms; heap_lists maps a list reference to
\* the elements of the list.
_assemble_rooms(entities, heap_lists) ==
  AssembleFrom(entities.room_types, entities.guests.adults,
               entities.guests.children,
               Len(heap_lists[entities.guests.children]))

RECURSIVE SumQuantity(_, _)
SumQuantity(rooms, k) ==
  IF k > Len(rooms) THEN 0 ELSE rooms[k].quantity + SumQuantity(rooms, k + 1)
RECURSIVE SumTotalGuests(_, _)
SumTotalGuests(rooms, k) ==
  IF k > Len(rooms) THEN 0
  ELSE (IF rooms[k].total_guests # None
        THEN rooms[k].total_guests * rooms[k].quantity ELSE 0)
       + SumTotalGuests(rooms, k + 1)

\* HotelEmailPipeline._is_group_booking with the thresholds __init__ read.
_is_group_booking(rooms, group_min_rooms, group_min_guests) ==
  IF rooms = << >> THEN FALSE
  ELSE \/ SumQuantity(rooms, 1) >= group_min_rooms
       \/ /\ SumTotalGuests(rooms, 1) > 0
          /\ SumTotalGuests(rooms, 1) >= group_min_guests

\* The thresholds HotelEmailPipeline.__init__ reads from the configuration.
GroupMinRooms(group_config) == Get(group_config, "min_rooms", DefaultMinRooms)
GroupMinGuests(group_config) == Get(group_config, "min_guests", DefaultMinGuests)

\* Step 4 of process for one segment, rooms being its assembled rooms.
SegmentResult(segment_data, dates, rooms, group_config) ==
  [segment_id |-> segment_data.segment_id,
   arrival_date |-> dates.arrival_date,
   departure_date |-> dates.departure_date,
   nights |-> dates.nights,
   rooms |-> rooms,
   is_group_booking |->
     _is_group_booking(rooms, GroupMinRooms(group_config),
                       GroupMinGuests(group_config))]

\* The objects process leaves behind: the returned dict, what extract
\* returned for every segment, and the heap of children lists.  The list
\* the extractor built for segment s is list object s; entities and rooms
\* hold the reference s in place of the list.
ProcessOutput(intent, segments_raw, entities, heap_lists, group_config) ==
  [result |->
     [intent |-> intent,
      segments |->
        List([s \in 1..Len(segments_raw) |->
                SegmentResult(segments_raw[s], entities[s].dates,
                              _assemble_rooms(entities[s], heap_lists),
                              group_config)])],
   entities |-> entities,
   lists |-> heap_lists,
   raised |-> ""]
\* process has no handler: the exception of a segment ends the call, and
\* nothing is returned.
ProcessRaised(exception) ==
  [result |-> [intent |-> "", segments |-> << >>], entities |-> << >>,
   lists |-> << >>, raised |-> exception]
ProcessExtracted(intent, segments_raw, ex, group_config) ==
  IF \E s \in 1..Len(ex) : HasRaised(ex[s])
  THEN ProcessRaised(ex[SetMin({s \in 1..Len(ex) : HasRaised(ex[s])})].raised)
  ELSE ProcessOutput(intent, segments_raw,
                     List([s \in 1..Len(ex) |-> [ex[s] EXCEPT !.guests.children = s]]),
                     List([s \in 1..Len(ex) |-> ex[s].guests.children]),
                     group_config)
ProcessSegments(intent, segments_raw, reference_date, now_year, group_config) ==
  ProcessExtracted(intent, segments_raw,
                   List([s \in 1..Len(segments_raw) |->
                           extract(segments_raw[s].text, reference_date, now_year)]),
                   group_config)
ProcessText(clean_text, intent, reference_date, now_year, group_config) ==
  ProcessSegments(intent, segment(clean_text, intent), reference_date, now_year,
                  group_config)
ProcessNormalized(clean_text, reference_date, now_year, group_config) ==
  ProcessText(clean_text, classify(clean_text).intent, reference_date, now_year,
              group_config)
\* HotelEmailPipeline.process(raw_email)
process(raw_email, reference_date, now_year, group_config) ==
  ProcessNormalized(normalize(raw_email).normalized_text, reference_date,
                    now_year, group_config)

(***************************************************************************)
(* Inputs                                                                  *)
(***************************************************************************)
\* Words to text: one space between two tokens unless punctuation attaches.
NoSpaceBefore == {",", ".", ":", ")", ";", "-", "\n"}
NoSpaceAfter == {"(", "#", "-", "\n"}
Spaced(ws, k) ==
  IF k > 1 /\ ws[k] \notin NoSpaceBefore /\ ws[k - 1] \notin NoSpaceAfter
  THEN <<" ", ws[k]>> ELSE <<ws[k]>>
Text(ws) == Concat([k \in 1..Len(ws) |-> Spaced(ws, k)], 1, Len(ws))

\* The emails of the repository's own scripts.
EmailDoubleRoom ==
  Text(<<"Hi", ",", "I", "need", "a", "double", "room", "from", "May", "12",
         "to", "May", "15", ",", "2026", ".", "We", "are", "2", "adults", ".">>)
EmailTeam ==
  Text(<<"I'd", "like", "to", "book", "3", "rooms", "for", "my", "team", ".",
         "14", "adults", "total", ".", "May", "10", "-", "12", ",", "2026", ".">>)
EmailCancel ==
  Text(<<"Please", "cancel", "my", "reservation", "#", "88421", "immediately",
         ".">>)
EmailPrice ==
  Text(<<"How", "much", "is", "a", "double", "room", "from", "May", "12", "to",
         "May", "15", ",", "2026">>)
ScriptEmails == {EmailDoubleRoom, EmailTeam, EmailCancel, EmailPrice}

\* Single requests: an opening, dates, a stay length, the party.
Openings ==
  { <<"I", "need", "a", "room">>,
    <<"I", "need", "a", "double", "room">>,
    <<"Please", "book", "2", "twin", "rooms", "and", "a", "suite">>,
    <<"We", "need", "15", "single", "rooms">> }
Filler ==
  <<"with", "breakfast", "included", "every", "morning", "and", "parking",
    "for", "one", "car", "please">>
DatePhrases ==
  { << >>,
    <<"from", "May", "12", "to", "May", "15", ",", "2026">>,
    <<"May", "10", "-", "12", ",", "2026">>,
    <<"arriving", "May", "12", ",", "2026", "and", "leaving", "May", "20", ",",
      "2026">>,
    <<"until", "May", "15", ",", "2026">>,
    <<"tomorrow">>,
    <<"check", "-", "in", "2026-05-15">> \o Filler
      \o <<"check", "-", "out", "2026-05-12">>,
    <<"May", "30", "to", "June", "2">>,
    <<"on", "05/12/2026">> }
NightPhrases ==
  { << >>, <<"for", "3", "nights">>, <<"staying", "for", "5", "nights">> }
PartyPhrases ==
  { << >>,
    <<".", "We", "are", "2", "adults">>,
    <<".", "We", "are", "4">>,
    <<".", "Just", "me">>,
    <<"for", "2", "adults", "and", "2", "kids", "(", "5", ",", "9", ")">>,
    <<"with", "3", "children">>,
    <<"for", "2", "adults", "and", "1", "child", "(", "age", "5", ")">>,
    <<"for", "14", "guests", ",", "one", "is", "a", "7", "year", "old">> }
Request(o, d, n, g) == Text(o \o d \o n \o g \o <<".">>)
SingleRequests ==
  { Request(o, d, n, g) :
      o \in Openings, d \in DatePhrases, n \in NightPhrases, g \in PartyPhrases }

\* Emails with several requests, and emails that only look like it.
PartA == Text(<<"I", "need", "a", "double", "room", "May", "10", "-", "12", ",",
                "2026", "for", "2", "adults", ".">>)
PartB == Text(<<"2", "twin", "rooms", "and", "a", "suite", "from", "May", "12",
                "to", "May", "15", ",", "2026", "for", "3", "nights", "with",
                "2", "kids", ".">>)
PartC == Text(<<"a", "room", "tomorrow", "with", "3", "children", ".">>)
Parts == {PartA, PartB, PartC}
Greeting == <<"Hi", ",", "\n">>
MultiRequests ==
  UNION { { <<"1", ".", " ">> \o a \o <<"\n", "2", ")", " ">> \o b,
            Greeting \o <<"1", ".", " ">> \o a \o <<"\n", " ", "2", ".", " ">> \o b
              \o <<"\n", "3", ".", " ">> \o PartC,
            <<"1", ".", " ">> \o a \o <<" ">> \o b,
            a \o <<"\n", "\n", "Also", ",", " ">> \o b,
            a \o <<"\n", "Additionally", " ">> \o b \o <<"\n", "Also", " ">> \o PartC,
            a \o <<" ", "Also", ",", " ">> \o b,
            <<"\n", "Also", ",", " ">> \o a,
            <<"First", " ", "trip", ":", " ">> \o a
              \o <<" ", "Second", " ", "trip", ":", " ">> \o b,
            Greeting \o <<"First", " ", "stay", " ">> \o a
              \o <<"\n", "Furthermore", ",", " ", "second", " ", "stay", " ">> \o b,
            <<"First", " ", "trip", ":", " ">> \o a,
            <<"1", ".", " ">> \o a \o <<"\n", "Also", ",", " ">> \o b
              \o <<"\n", "2", ".", " ">> \o PartC,
            <<"\t">> \o a \o <<" ", " ", "\n", "\n", "\n", "\n">> \o b
              \o <<"\n", "\n", "Sent", " ", "from", " ", "my", " ", "iPhone">> }
          : a \in Parts, b \in Parts }

\* Requests that state the number of rooms, among them none.
QuantityRequests ==
  { Request(<<"I", "need", n, "double", "rooms">>, << >>, << >>, g) :
      n \in {"0", "1", "10"},
      g \in {<< >>, <<"for", "2", "adults">>} }

\* Requests with three dates and no keyword, and with a date without keyword
\* well before an arrival date.
ManyDatesRequests ==
  { Request(<<"I", "need", "a", "room">>, d, n, << >>) :
      d \in { <<"May", "10", "-", "12", ",", "2026", "or", "tomorrow">>,
              <<"on", "05/12/2026">> \o Filler
                \o <<"arriving", "May", "20", ",", "2026">>,
              <<"tomorrow">> \o Filler \o <<"until", "May", "20", ",", "2026">>
                \o Filler \o <<"or", "until", "2026-05-15">> },
      n \in {<< >>, <<"for", "3", "nights">>} }

\* Requests whose party is described in more than one way.
MixedParties ==
  { <<"with", "2", "kids", ",", "one", "is", "a", "7", "year", "old">>,
    <<"for", "2", "adults", "and", "2", "kids", ",", "the", "older", "child",
      "(", "age", "9", ")">>,
    <<"with", "2", "kids", "(", "5", ")", ",", "one", "is", "a", "7", "year",
      "old">>,
    <<"for", "a", "child", "(", "age", "5", ")", "and", "a", "7", "year",
      "old", "and", "a", "40", "year", "old">>,
    <<"for", "a", "7", "year", "old", "and", "a", "7", "year", "old">>,
    <<".", "Just", "me", "and", "3", "guests">>,
    <<"for", "14", "guests", ",", "2", "adults", ",", "we", "are", "4">>,
    <<".", "We", "are", "4", ",", "just", "me", "and", "the", "family">>,
    <<".", "We", "are", "4", "with", "the", "kids">> }
MixedRequests ==
  { Request(o, << >>, << >>, g) :
      o \in {<<"I", "need", "a", "room">>, <<"We", "need", "15", "single", "rooms">>},
      g \in MixedParties }

Emails ==
  ScriptEmails \cup SingleRequests \cup MultiRequests \cup QuantityRequests
  \cup ManyDatesRequests \cup MixedRequests

\* group_booking tables of the configuration: one with the keys
\* BusinessLogic reads, one with the keys HotelEmailPipeline reads, one with
\* both.
GroupConfigs ==
  { [room_threshold |-> 3, guest_threshold |-> 12],
    [min_rooms |-> 3, min_guests |-> 12],
    [room_threshold |-> 3, guest_threshold |-> 12, min_rooms |-> 3,
     min_guests |-> 12] }

\* Wall-clock dates at which a pipeline is constructed and called.
WallDates == { <<2026, 4, 30>>, <<2027, 1, 15>> }
\* A pipeline: its configuration and the date it runs at.
Deployments == GroupConfigs \X WallDates
\* The emails every pipeline is given; the others go to the first one only.
VariedEmails ==
  ScriptEmails \cup MultiRequests
  \cup {Request(o, d, << >>, << >>) : o \in Openings, d \in DatePhrases}
ProcessArgs ==
  (VariedEmails \X Deployments)
  \cup (Emails \X {<<[room_threshold |-> 3, guest_threshold |-> 12],
                      <<2026, 4, 30>>>>})

\* Arguments of resolve_dates and _fill_missing_date_field: days around the
\* end of a month, and stated numbers of nights.
MaxDayOffset == 3
MaxNights == 4
Days == { Strptime(<<2026, 5, 30>>) + d : d \in 0..MaxDayOffset }
DateArgs ==
  [arrival : {NoDay} \cup Days, departure : {NoDay} \cup Days,
   nights : {None} \cup 1..MaxNights]

\* Arguments of BusinessLogic.is_group_booking: the rooms of a segment.
MaxRooms == 3
RECURSIVE SeqsUpTo(_, _)
SeqsUpTo(S, n) ==
  IF n = 0 THEN {<< >>}
  ELSE SeqsUpTo(S, n - 1)
       \cup {Append(q, x) : q \in {p \in SeqsUpTo(S, n - 1) : Len(p) = n - 1},
                            x \in S}
RoomArgs ==
  SeqsUpTo([adults : {None, 0, 2, 6}, nchildren : {0, 1}], MaxRooms)

\* Arguments of EmailSegmenter.segment: normalized texts and intent labels.
Intents ==
  {"booking_request", "booking_modification", "cancellation", "price_inquiry",
   "availability_check", "other"}
SegmentTexts ==
  {normalize(e).normalized_text : e \in ScriptEmails \cup MultiRequests}

\* hotel.yaml as loaded: the complete file, one with another age limit, and
\* files that lack keys.
HotelConfig ==
  [hotel_id |-> "hotel_001", child_adult_age |-> 12,
   default_room_occupancy |-> 2,
   group_booking |-> [room_threshold |-> 3, guest_threshold |-> 12]]
Without(table, keys) == [key \in DOMAIN table \ keys |-> table[key]]
HotelConfigs ==
  { HotelConfig,
    [HotelConfig EXCEPT !.child_adult_age = 6],
    Without(HotelConfig, {"child_adult_age"}),
    Without(HotelConfig, {"group_booking"}),
    Without(HotelConfig, {"default_room_occupancy", "hotel_id"}) }

\* Arguments of BusinessLogic.enrich_segment: the segments process returns
\* for requests with and without children, with the children lists they
\* refer to.
EnrichParties ==
  PartyPhrases
  \cup { <<"with", "3", "kids", "(", "5", ",", "14", ")">>,
         <<"for", "2", "adults", "and", "2", "kids", "(", "ages", "11", ",",
           "12", ")">> }
EnrichEmails ==
  {Request(o, << >>, << >>, g) : o \in Openings, g \in EnrichParties}
SegmentsOf(out) ==
  {[segment |-> out.result.segments[s], lists |-> out.lists] :
     s \in 1..Len(out.result.segments)}
EnrichArgs ==
  UNION {SegmentsOf(process(e, <<2026, 4, 30>>, 2026, HotelConfig.group_booking)) :
           e \in EnrichEmails}

\* A pipeline that is constructed and then called several times while the
\* clock runs: the configuration file it is given (one is missing), and the
\* email it is called with.
NoFile == [file_not_found |-> TRUE]
ConfigFiles == HotelConfigs \cup {NoFile}
PartLong ==
  Text(<<"a", "suite", "arriving", "May", "12", ",", "2026", "for", "3000000",
         "nights", ".">>)
SessionEmails ==
  ScriptEmails
  \cup {Request(o, d, << >>, << >>) :
          o \in {<<"I", "need", "a", "double", "room">>},
          d \in {<<"May", "30", "to", "June", "2">>, <<"tomorrow">>,
                 <<"on", "05/12/2026">>}}
  \cup { <<"1", ".", " ">> \o PartA \o <<"\n", "2", ")", " ">> \o PartLong,
         <<"1", ".", " ">> \o PartLong \o <<"\n", "2", ")", " ">> \o PartB,
         <<"1", ".", " ">> \o PartA \o <<"\n", "2", ")", " ">> \o PartC,
         PartLong }
MaxCalls == 2

\* Arguments of normalize: emails with a signature, a disclaimer, both in
\* either order, the signature twice, and none.
Signature == <<"Sent", " ", "from", " ", "my", " ", "iPhone">>
Disclaimer == <<"This", " ", "email", " ", "is", " ", "confidential", ".">>
Endings ==
  { << >>, Signature, Disclaimer,
    Signature \o <<"\n">> \o Disclaimer,
    Disclaimer \o <<"\n", "\n">> \o Signature,
    Signature \o <<"\n">> \o Signature }
\* Texts of blanks, tabs, line breaks and words only: up to MaxLines lines,
\* each one of WhitespaceLines.
MaxLines == 4
WhitespaceLines ==
  { << >>, <<" ">>, <<"a">>, <<"\t", "a", " ">>, <<"a", " ", "\t", " ", "b">> }
WhitespaceTexts ==
  {JoinLines(ls) : ls \in SeqsUpTo(WhitespaceLines, MaxLines)}
NormalizeEmails ==
  { << >> } \cup WhitespaceTexts \cup
  { e \o <<"\n", "\n">> \o ending \o tail :
      e \in ScriptEmails \cup {PartA \o <<"\n", "\t", "Also", ",", " ">> \o PartC},
      ending \in Endings, tail \in {<< >>, <<"\n", "Thanks">>} }

\* Arguments of validate_booking: the dates are ISO strings or None, up to
\* MaxBookingRooms rooms.
MaxBookingRooms == 2
BookingDates ==
  {NoDate, <<2026, 5, 31>>, <<2026, 6, 1>>, <<2026, 12, 31>>, <<2027, 1, 1>>}
Bookings ==
  [arrival_date : BookingDates, departure_date : BookingDates,
   rooms : SeqsUpTo([adults : {None, 0, 2}, nchildren : {0, 1}],
                    MaxBookingRooms)]

\* Arguments of classify: the emails of the scripts, and sentences with the
\* keywords of no, one or two intents.
ClassifyOpenings ==
  { <<"Please", "cancel">>, <<"Cancel">>, <<"I", "need", "to", "cancel">>,
    <<"Please", "book">>, <<"What", "is", "the", "price", "of">>,
    <<"How", "much", "is">>, <<"Do", "you", "have">>,
    <<"Is", "there", "a", "cancellation", "fee", "for">>,
    <<"Please", "change">>, <<"Thanks", "for">> }
ClassifyObjects ==
  { <<"my", "reservation">>, <<"my", "booking">>, <<"a", "double", "room">>,
    <<"the", "room", "I", "reserved">>, <<"any", "room", "available">>,
    <<"the", "stay">> }
ClassifyTexts ==
  ScriptEmails
  \cup {Text(o \o b \o <<".">>) : o \in ClassifyOpenings, b \in ClassifyObjects}

\* Arguments of _fill_missing_date_field alone: what _extract_dates hands it
\* for texts with none, one or both dates and with or without a stated
\* number of nights, which may be any number the text gives.
FillArgs ==
  [arrival : {NoDay, Strptime(<<2026, 5, 30>>), Strptime(<<2026, 6, 2>>)},
   departure : {NoDay, Strptime(<<2026, 5, 30>>), Strptime(<<2026, 6, 1>>)},
   nights : {None, 2, 400, 3000000}]

(***************************************************************************)
(* State                                                                   *)
(***************************************************************************)
VARIABLES
  op,             \* the entry point this behaviour calls
  pc,             \* the calls that have returned
  config,         \* the group_booking table of the loaded configuration
  now,            \* the wall-clock date (datetime.now())
  reference_date, \* EntityExtractor.reference_date, fixed at construction
  raw_email,      \* process: the argument
  result,         \* process: the returned dict
  entities,       \* process: what extract returned for every segment
  lists,          \* heap: children list object -> its elements
  dates,          \* resolve_dates, _fill_missing_date_field: the arguments
  resolved,       \* resolve_dates: the returned dict
  filled,         \* _fill_missing_date_field: the dict after the call
  rooms,          \* BusinessLogic.is_group_booking: segment["rooms"]
  is_group,       \* BusinessLogic.is_group_booking: the returned bool
  text,           \* segment: the text argument
  intent,         \* segment: the intent argument
  segments,       \* segment: the returned list
  config_file,    \* the contents of hotel.yaml
  segment_arg,    \* enrich_segment: the argument
  lists_at_call,  \* enrich_segment: the children lists when it was called
  enriched,       \* enrich_segment: the returned dict
  raised,         \* the exception the call ended with, "" when it returned
  pipeline,       \* the HotelEmailPipeline instance: "none", "ready", or the
                  \* exception its construction raised
  calls,          \* the process calls made on the instance
  earlier,        \* what the process call before the last one returned
  normalized,     \* normalize: the returned dict
  options,        \* normalize: the options of the normalizer
  booking,        \* validate_booking: the segment argument
  errors,         \* validate_booking: the returned list
  classified      \* classify: the returned dict

vars ==
  <<op, pc, config, now, reference_date, raw_email, result, entities, lists,
    dates, resolved, filled, rooms, is_group, text, intent, segments,
    config_file, segment_arg, lists_at_call, enriched, raised, pipeline,
    calls, earlier, normalized, options, booking, errors, classified>>
enrichVars == <<config_file, segment_arg, lists_at_call, enriched>>
sessionVars == <<pipeline, calls, earlier, normalized, options>>
unitVars == <<booking, errors, classified>>
NoNormalized ==
  [normalized_text |-> << >>, spans_removed |-> << >>, applied |-> << >>]

NoBooking == [arrival_date |-> NoDate, departure_date |-> NoDate, rooms |-> << >>]
NoClassified == [intent |-> "", confidence |-> 0, method |-> ""]
NoResult == [intent |-> "", segments |-> << >>]
NoDates == [arrival |-> NoDay, departure |-> NoDay, nights |-> None]
NoResolved ==
  [arrival_date |-> NoDay, departure_date |-> NoDay, nights |-> None,
   resolution_method |-> ""]
\* The dates dict as _extract_dates holds it before _fill_missing_date_field:
\* ISO strings, and the confidences of fields that were found.
DatesDict(arrival, departure, nights) ==
  [arrival_date |-> IF arrival = NoDay THEN NoDate ELSE Strftime(arrival),
   departure_date |-> IF departure = NoDay THEN NoDate ELSE Strftime(departure),
   nights |-> nights,
   confidence |-> [arrival_date |-> IF arrival = NoDay THEN 0 ELSE 5,
                   departure_date |-> IF departure = NoDay THEN 0 ELSE 5,
                   nights |-> IF nights = None THEN 0 ELSE 10]]

\* What every behaviour starts with, whichever entry point it calls.
NoSegment == [segment_id |-> None, rooms |-> << >>]
Idle ==
  /\ pc = {}
  /\ result = NoResult /\ entities = << >>
  /\ enriched = NoSegment /\ raised = ""
  /\ calls = 0 /\ earlier = NoResult /\ normalized = NoNormalized
  /\ resolved = NoResolved
  /\ filled = DatesDict(NoDay, NoDay, None)
  /\ is_group = FALSE
  /\ segments = << >>
  /\ errors = << >> /\ classified = NoClassified
NoProcessArgs ==
  /\ now = <<2026, 4, 30>> /\ reference_date = now /\ raw_email = << >>
NoOtherArgs ==
  /\ dates = NoDates /\ rooms = << >> /\ text = << >> /\ intent = ""
NoEnrichArgs ==
  /\ config_file = HotelConfig /\ segment_arg = NoSegment
  /\ lists = << >> /\ lists_at_call = << >>

Init ==
  /\ Idle
  /\ \/ /\ op = "process"
        /\ options = DefaultOptions /\ booking = NoBooking
        /\ \E a \in ProcessArgs :
             raw_email = a[1] /\ config = a[2][1] /\ now = a[2][2]
        /\ reference_date = now
        /\ pipeline = "ready"
        /\ NoOtherArgs /\ NoEnrichArgs
     \/ /\ op = "session"
        /\ options = DefaultOptions /\ booking = NoBooking
        /\ pipeline = "none"
        /\ config_file \in ConfigFiles
        /\ raw_email \in SessionEmails
        /\ config = << >> /\ now = <<2026, 4, 30>> /\ reference_date = NoDate
        /\ segment_arg = NoSegment /\ lists = << >> /\ lists_at_call = << >>
        /\ NoOtherArgs
     \/ /\ op = "dates"
        /\ options = DefaultOptions /\ booking = NoBooking
        /\ config = [room_threshold |-> 3, guest_threshold |-> 12]
        /\ dates \in DateArgs
        /\ rooms = << >> /\ text = << >> /\ intent = ""
        /\ NoProcessArgs /\ NoEnrichArgs /\ pipeline = "none"
     \/ /\ op = "is_group_booking"
        /\ options = DefaultOptions /\ booking = NoBooking
        /\ config \in GroupConfigs
        /\ rooms \in RoomArgs
        /\ dates = NoDates /\ text = << >> /\ intent = ""
        /\ NoProcessArgs /\ NoEnrichArgs /\ pipeline = "none"
     \/ /\ op = "segment"
        /\ options = DefaultOptions /\ booking = NoBooking
        /\ config = [room_threshold |-> 3, guest_threshold |-> 12]
        /\ text \in SegmentTexts
        /\ intent \in Intents
        /\ dates = NoDates /\ rooms = << >>
        /\ NoProcessArgs /\ NoEnrichArgs /\ pipeline = "none"
     \/ /\ op = "normalize"
        /\ raw_email \in NormalizeEmails
        /\ options \in [remove_greetings : BOOLEAN] /\ booking = NoBooking
        /\ config = << >> /\ now = <<2026, 4, 30>> /\ reference_date = now
        /\ NoOtherArgs /\ NoEnrichArgs /\ pipeline = "none"
     \/ /\ op = "validate_booking"
        /\ options = DefaultOptions
        /\ booking \in Bookings
        /\ config = << >>
        /\ NoOtherArgs /\ NoProcessArgs /\ NoEnrichArgs /\ pipeline = "none"
     \/ /\ op = "classify"
        /\ options = DefaultOptions /\ booking = NoBooking
        /\ text \in ClassifyTexts
        /\ config = << >> /\ dates = NoDates /\ rooms = << >> /\ intent = ""
        /\ NoProcessArgs /\ NoEnrichArgs /\ pipeline = "none"
     \/ /\ op = "_fill_missing_date_field"
        /\ options = DefaultOptions /\ booking = NoBooking
        /\ config = << >>
        /\ dates \in FillArgs
        /\ rooms = << >> /\ text = << >> /\ intent = ""
        /\ NoProcessArgs /\ NoEnrichArgs /\ pipeline = "none"
     \/ /\ op = "enrich_segment"
        /\ options = DefaultOptions /\ booking = NoBooking
        /\ config_file \in HotelConfigs
        /\ config = Get(config_file, "group_booking", << >>)
        /\ \E a \in EnrichArgs :
             segment_arg = a.segment /\ lists = a.lists /\ lists_at_call = a.lists
        /\ NoOtherArgs /\ NoProcessArgs /\ pipeline = "none"

\* The return of process: the objects it leaves behind.
Return(out) ==
  /\ result' = out.result
  /\ entities' = out.entities
  /\ lists' = out.lists
  /\ raised' = out.raised

\* HotelEmailPipeline(config_path): reads hotel.yaml, builds the components
\* (the extractor takes the date of construction as its reference date) and
\* reads the group thresholds.
Construct ==
  /\ op = "session" /\ pipeline = "none"
  /\ IF "file_not_found" \in DOMAIN config_file
     THEN /\ pipeline' = "FileNotFoundError"
          /\ UNCHANGED <<config, reference_date>>
     ELSE /\ pipeline' = "ready"
          /\ config' = Get(config_file, "group_booking", << >>)
          /\ reference_date' = now
  /\ UNCHANGED <<op, pc, now, raw_email, result, entities, lists, dates,
                 resolved, filled, rooms, is_group, text, intent, segments,
                 enrichVars, unitVars, raised, calls, earlier, normalized, options>>

\* The clock moves on between two calls.
Tick ==
  /\ op = "session" /\ pipeline = "ready" /\ calls < MaxCalls
  /\ \E day \in WallDates :
       Strptime(day) > Strptime(now) /\ now' = day
  /\ UNCHANGED <<op, pc, config, reference_date, raw_email, result, entities,
                 lists, dates, resolved, filled, rooms, is_group, text, intent,
                 segments, enrichVars, unitVars, raised, sessionVars>>

\* HotelEmailPipeline.process(raw_email): the whole call, returning or
\* raising.  It writes no attribute of the instance.
Process ==
  /\ pipeline = "ready"
  /\ \/ op = "process" /\ calls = 0
     \/ op = "session" /\ calls < MaxCalls
  /\ Return(process(raw_email, reference_date, now[1], config))
  /\ earlier' = result
  /\ calls' = calls + 1
  /\ pc' = pc \cup {"process"}
  /\ UNCHANGED <<op, config, now, reference_date, raw_email, dates, resolved,
                 filled, rooms, is_group, text, intent, segments, enrichVars,
                 unitVars, pipeline, normalized, options>>

\* RulesEngine.resolve_dates(arrival, departure, nights)
ResolveDates ==
  /\ op = "dates" /\ "resolve_dates" \notin pc
  /\ resolved' = resolve_dates(dates.arrival, dates.departure, dates.nights)
  /\ pc' = pc \cup {"resolve_dates"}
  /\ UNCHANGED <<op, config, now, reference_date, raw_email, result, entities,
                 lists, dates, filled, rooms, is_group, text, intent, segments,
                 enrichVars, unitVars, raised, sessionVars>>

\* EntityExtractor._fill_missing_date_field(result) on the same three values.
\* The call returns the dict it was given, with the field filled in, or
\* raises before it has written anything.
FillMissingDateField ==
  /\ op \in {"dates", "_fill_missing_date_field"}
  /\ "_fill_missing_date_field" \notin pc
  /\ \E out \in {_fill_missing_date_field(
                    DatesDict(dates.arrival, dates.departure, dates.nights))} :
       IF HasRaised(out)
       THEN /\ raised' = out.raised
            /\ filled' = DatesDict(dates.arrival, dates.departure, dates.nights)
       ELSE /\ raised' = ""
            /\ filled' = out
  /\ pc' = pc \cup {"_fill_missing_date_field"}
  /\ UNCHANGED <<op, config, now, reference_date, raw_email, result, entities,
                 lists, dates, resolved, rooms, is_group, text, intent, segments,
                 enrichVars, unitVars, sessionVars>>

\* BusinessLogic.is_group_booking(segment)
IsGroupBooking ==
  /\ op = "is_group_booking" /\ "is_group_booking" \notin pc
  /\ is_group' = is_group_booking(rooms, config)
  /\ pc' = pc \cup {"is_group_booking"}
  /\ UNCHANGED <<op, config, now, reference_date, raw_email, result, entities,
                 lists, dates, resolved, filled, rooms, text, intent, segments,
                 enrichVars, unitVars, raised, sessionVars>>

\* EmailSegmenter.segment(text, intent)
Segment ==
  /\ op = "segment" /\ "segment" \notin pc
  /\ segments' = segment(text, intent)
  /\ pc' = pc \cup {"segment"}
  /\ UNCHANGED <<op, config, now, reference_date, raw_email, result, entities,
                 lists, dates, resolved, filled, rooms, is_group, text, intent,
                 enrichVars, unitVars, raised, sessionVars>>

\* BusinessLogic.enrich_segment(segment): the whole call, returning or
\* raising; what it wrote before it raised stays written.
EnrichSegment ==
  /\ op = "enrich_segment" /\ "enrich_segment" \notin pc
  /\ \E out \in {enrich_segment(segment_arg, lists, config_file)} :
       /\ lists' = out.lists
       /\ raised' = out.raised
       /\ enriched' = IF out.raised = "" THEN out.enriched ELSE enriched
  /\ lists_at_call' = lists
  /\ pc' = pc \cup {"enrich_segment"}
  /\ UNCHANGED <<op, config, now, reference_date, raw_email, result, entities,
                 dates, resolved, filled, rooms, is_group, text, intent,
                 segments, config_file, segment_arg, sessionVars, unitVars>>

\* EmailNormalizer.normalize(raw_email)
Normalize ==
  /\ op = "normalize" /\ "normalize" \notin pc
  /\ normalized' = NormalizeWith(raw_email, options)
  /\ pc' = pc \cup {"normalize"}
  /\ UNCHANGED <<op, config, now, reference_date, raw_email, result, entities,
                 lists, dates, resolved, filled, rooms, is_group, text, intent,
                 segments, enrichVars, unitVars, raised, pipeline, calls, earlier,
                 options>>

\* RulesEngine.validate_booking(segment): it reads the segment and builds a
\* new list.
ValidateBooking ==
  /\ op = "validate_booking" /\ "validate_booking" \notin pc
  /\ errors' = validate_booking(booking)
  /\ pc' = pc \cup {"validate_booking"}
  /\ UNCHANGED <<op, config, now, reference_date, raw_email, result, entities,
                 lists, dates, resolved, filled, rooms, is_group, text, intent,
                 segments, enrichVars, booking, classified, raised, sessionVars>>

\* IntentClassifier.classify(text), no learned model being loaded.
Classify ==
  /\ op = "classify" /\ "classify" \notin pc
  /\ classified' = classify(text)
  /\ pc' = pc \cup {"classify"}
  /\ UNCHANGED <<op, config, now, reference_date, raw_email, result, entities,
                 lists, dates, resolved, filled, rooms, is_group, text, intent,
                 segments, enrichVars, booking, errors, raised, sessionVars>>

Next ==
  \/ Construct
  \/ Classify
  \/ ValidateBooking
  \/ Normalize
  \/ Tick
  \/ EnrichSegment
  \/ Process
  \/ ResolveDates
  \/ FillMissingDateField
  \/ IsGroupBooking
  \/ Segment

Spec == Init /\ [][Next]_vars

(***************************************************************************)
(* Properties                                                              *)
(***************************************************************************)
Returned(call) == call \in pc
ProcessReturned == op = "process" /\ Returned("process")
SegmentReturned == op = "segment" /\ Returned("segment")
GroupReturned == op = "is_group_booking" /\ Returned("is_group_booking")
DatesReturned ==
  op = "dates" /\ Returned("resolve_dates") /\ Returned("_fill_missing_date_field")

\* The children list a reference leads to.
ChildrenOfRoom(s, r) == lists[result.segments[s].rooms[r].children]
ChildrenOfGuests(s) == lists[entities[s].guests.children]

\* C1: process("Hi, I need a double room from May 12 to May 15, 2026. We are
\* 2 adults.") returns one segment with arrival 2026-05-12, departure
\* 2026-05-15, nights 3 (the first date of the range is the arrival, the
\* second the departure, nights their difference), exactly one room {double,
\* quantity 1, adults 2, no children, total_guests 2}, not a group booking.
C1_RangeGivesArrivalAndDeparture ==
  (ProcessReturned /\ raw_email = EmailDoubleRoom) =>
    /\ Len(result.segments) = 1
    /\ result.segments[1].arrival_date = <<2026, 5, 12>>
    /\ result.segments[1].departure_date = <<2026, 5, 15>>
    /\ result.segments[1].nights = 3
    /\ Len(result.segments[1].rooms) = 1
    /\ result.segments[1].rooms[1].room_type = "double"
    /\ result.segments[1].rooms[1].quantity = 1
    /\ result.segments[1].rooms[1].adults = 2
    /\ ChildrenOfRoom(1, 1) = << >>
    /\ result.segments[1].rooms[1].total_guests = 2
    /\ result.segments[1].is_group_booking = FALSE

\* C2: segment(text, intent) returns the empty list for every text when the
\* intent is not "booking_request", and process returns no segments for an
\* email of any other intent.
C2_NoSegmentsUnlessBookingRequest ==
  /\ (SegmentReturned /\ intent # "booking_request") => segments = << >>
  /\ (ProcessReturned /\ result.intent # "booking_request") =>
       result.segments = << >>
\* segment has returned for a text with a numbered list and the intent
\* "cancellation".
C2_Witness ==
  /\ SegmentReturned
  /\ intent = "cancellation"
  /\ Len(_split_by_numbered_lists(text)) > 1
  /\ segments = << >>

\* The segments are those of one family: same texts and bounds, numbered
\* from 0, all with the family's method.
IsFamily(family, method) ==
  /\ Len(segments) = Len(family)
  /\ Len(segments) > 1
  /\ \A i \in 1..Len(segments) :
       /\ segments[i].segment_id = i - 1
       /\ segments[i].text = family[i].text
       /\ segments[i].start_char = family[i].start
       /\ segments[i].end_char = family[i].end
       /\ segments[i].method = method
C4_NightsAreTheDateDifference ==
  ProcessReturned =>
    \A s \in 1..Len(entities) :
      (/\ entities[s].dates.arrival_date # NoDate
       /\ entities[s].dates.departure_date # NoDate
       /\ entities[s].dates.nights # None)
      => entities[s].dates.nights
           = Strptime(entities[s].dates.departure_date)
             - Strptime(entities[s].dates.arrival_date)

\* C5: resolve_dates and _fill_missing_date_field implement the same policy:
\* given the same arrival, departure and nights (each present or absent) they
\* leave the same three values; in particular departure and nights alone give
\* arrival = departure - nights, and two dates give nights only when the
\* difference is positive.
IsoOf(day) == IF day = NoDay THEN NoDate ELSE Strftime(day)
C5_SamePolicy ==
  DatesReturned =>
    /\ IsoOf(resolved.arrival_date) = filled.arrival_date
    /\ IsoOf(resolved.departure_date) = filled.departure_date
    /\ resolved.nights = filled.nights

\* The rooms of segment s as BusinessLogic.is_group_booking reads them.
RoomsOfSegment(s) ==
  [r \in 1..Len(result.segments[s].rooms) |->
     [adults |-> result.segments[s].rooms[r].adults,
      nchildren |-> Len(ChildrenOfRoom(s, r))]]
\* C6: the is_group_booking of every segment process returns is the
\* BusinessLogic criterion (number of room entries >= room_threshold, or the
\* summed adults and children >= guest_threshold) with the configured
\* group_booking.room_threshold and guest_threshold.
C6_ProcessUsesGroupCriterion ==
  ProcessReturned =>
    \A s \in 1..Len(result.segments) :
      result.segments[s].is_group_booking
        = is_group_booking(RoomsOfSegment(s), config)

\* The guests of the rooms, one element per guest.
GuestsOfRoom(k) ==
  (IF rooms[k].adults = None THEN 0 ELSE rooms[k].adults) + rooms[k].nchildren
AllGuests ==
  UNION {{<<k, g>> : g \in 1..GuestsOfRoom(k)} : k \in 1..Len(rooms)}
\* The configured thresholds, 7 and 15 when the table has none.
RoomThreshold ==
  IF "room_threshold" \in DOMAIN config THEN config.room_threshold
  ELSE DefaultRoomThreshold
GuestThreshold ==
  IF "guest_threshold" \in DOMAIN config THEN config.guest_threshold
  ELSE DefaultGuestThreshold
\* C7: BusinessLogic.is_group_booking is true exactly when the number of room
\* entries is at least room_threshold or the sum over the rooms of adults
\* (null counting 0) plus children is at least guest_threshold; a count equal
\* to its threshold qualifies.
C7_GroupIffThresholdReached ==
  GroupReturned =>
    (is_group <=> \/ Len(rooms) >= RoomThreshold
                  \/ Cardinality(AllGuests) >= GuestThreshold)
\* is_group_booking has returned true for rooms whose guests are exactly
\* guest_threshold, fewer rooms than room_threshold, one room without adults.
C7_Witness ==
  /\ GroupReturned
  /\ is_group
  /\ Len(rooms) < RoomThreshold
  /\ Cardinality(AllGuests) = GuestThreshold
  /\ \E k \in 1..Len(rooms) : rooms[k].adults = None

\* adults + number of child records, null when adults is null.
TotalOf(adults, children) ==
  IF adults = None THEN None ELSE adults + Len(children)
\* C8: total_guests is adults plus the number of child records when adults is
\* not null and null when adults is null, in the guest result of the
\* extractor and in every room.
C8_TotalGuests ==
  ProcessReturned =>
    \A s \in 1..Len(result.segments) :
      /\ entities[s].guests.total_guests
           = TotalOf(entities[s].guests.adults, ChildrenOfGuests(s))
      /\ \A r \in 1..Len(result.segments[s].rooms) :
           result.segments[s].rooms[r].total_guests
             = TotalOf(result.segments[s].rooms[r].adults, ChildrenOfRoom(s, r))
\* process has returned a room with adults and children, and a segment whose
\* room has no adult count.
C8_Witness ==
  /\ ProcessReturned
  /\ \E s \in 1..Len(result.segments) :
       \E r \in 1..Len(result.segments[s].rooms) :
         /\ result.segments[s].rooms[r].adults > 0
         /\ Len(ChildrenOfRoom(s, r)) > 1
         /\ result.segments[s].rooms[r].total_guests
              = result.segments[s].rooms[r].adults + Len(ChildrenOfRoom(s, r))
  /\ \E s \in 1..Len(result.segments) :
       \E r \in 1..Len(result.segments[s].rooms) :
         /\ result.segments[s].rooms[r].adults = None
         /\ result.segments[s].rooms[r].total_guests = None

\* Room r of segment s carries the guests of the segment.
CarriesGuests(s, r) ==
  /\ DOMAIN result.segments[s].rooms[r]
       = {"room_type", "quantity", "adults", "children", "total_guests"}
  /\ result.segments[s].rooms[r].adults = entities[s].guests.adults
  /\ ChildrenOfRoom(s, r) = ChildrenOfGuests(s)
\* C9: the rooms of a segment are one per room-type candidate, in order, each
\* with the candidate's type and quantity; with no candidate there is exactly
\* one room (room_type null, quantity 1) if adults is known or there is at
\* least one child, and no room otherwise; every room has adults, children
\* and total_guests.
C9_RoomsFromCandidates ==
  ProcessReturned =>
    \A s \in 1..Len(result.segments) :
      /\ IF entities[s].room_types # << >>
         THEN /\ Len(result.segments[s].rooms) = Len(entities[s].room_types)
              /\ \A r \in 1..Len(entities[s].room_types) :
                   /\ result.segments[s].rooms[r].room_type
                        = entities[s].room_types[r].room_type
                   /\ result.segments[s].rooms[r].quantity
                        = entities[s].room_types[r].quantity
         ELSE IF entities[s].guests.adults # None \/ Len(ChildrenOfGuests(s)) >= 1
         THEN /\ Len(result.segments[s].rooms) = 1
              /\ result.segments[s].rooms[1].room_type = NoType
              /\ result.segments[s].rooms[1].quantity = 1
         ELSE result.segments[s].rooms = << >>
      /\ \A r \in 1..Len(result.segments[s].rooms) : CarriesGuests(s, r)
\* process has returned a segment with two room-type candidates and hence
\* two rooms, and a segment with no candidate but with children only, hence
\* one room without a type.
C9_Witness ==
  /\ ProcessReturned
  /\ \E s \in 1..Len(result.segments) :
       /\ Len(entities[s].room_types) = 2
       /\ Len(result.segments[s].rooms) = 2
       /\ result.segments[s].rooms[1].room_type # result.segments[s].rooms[2].room_type
  /\ \E s \in 1..Len(result.segments) :
       /\ entities[s].room_types = << >>
       /\ entities[s].guests.adults = None
       /\ Len(ChildrenOfGuests(s)) >= 1
       /\ Len(result.segments[s].rooms) = 1
       /\ result.segments[s].rooms[1].room_type = NoType

\* C10: every room has its own copy of the children: the children list of a
\* room is not the list object of another room of the segment nor the list
\* object of the extractor's guest result, so that a change made through one
\* room shows nowhere else.
C10_RoomsOwnTheirChildren ==
  ProcessReturned =>
    \A s \in 1..Len(result.segments) :
      \A r \in 1..Len(result.segments[s].rooms) :
        /\ result.segments[s].rooms[r].children # entities[s].guests.children
        /\ \A q \in 1..Len(result.segments[s].rooms) :
             q # r => result.segments[s].rooms[q].children
                        # result.segments[s].rooms[r].children

\* enrich_segment was called and the call is over, returned or raised.
EnrichCalled == op = "enrich_segment" /\ Returned("enrich_segment")
\* The child records room r of a segment dict leads to, now and at the call.
ChildrenNow(seg, r) == lists[seg.rooms[r].children]
ChildrenAtCall(seg, r) == lists_at_call[seg.rooms[r].children]
\* C11: enrich_segment does not mutate its argument: after the call every
\* room and every child record reachable from the input segment is what it
\* was before the call; no child record of the input has gained a
\* classification.
C11_EnrichLeavesInputAlone ==
  EnrichCalled =>
    \A r \in 1..Len(segment_arg.rooms) :
      /\ ChildrenNow(segment_arg, r) = ChildrenAtCall(segment_arg, r)
      /\ \A k \in 1..Len(ChildrenNow(segment_arg, r)) :
           "classification" \notin DOMAIN ChildrenNow(segment_arg, r)[k]

\* C12: enrich_segment completes without raising for every segment the
\* pipeline produces, also when a child record has age null, and every
\* child record of the returned segment has the classification "child" or
\* "adult".
C12_EnrichNeverRaises ==
  EnrichCalled =>
    /\ raised = ""
    /\ \A r \in 1..Len(enriched.rooms) :
         \A k \in 1..Len(ChildrenNow(enriched, r)) :
           /\ "classification" \in DOMAIN ChildrenNow(enriched, r)[k]
           /\ ChildrenNow(enriched, r)[k].classification \in {"child", "adult"}

\* A pipeline instance was called at least once / at least twice.
SessionCalled == op = "session" /\ calls >= 1
SessionCalledTwice == op = "session" /\ calls >= 2
\* C13: the result of process depends only on the email, the configuration
\* and the reference date of the instance: a second call on the same email
\* returns what the first returned, whatever the wall clock shows by then.
C13_SameEmailSameResult ==
  SessionCalledTwice => result = earlier

\* The segments the segmenter finds in the email.
RawSegments(email) ==
  segment(normalize(email).normalized_text,
          classify(normalize(email).normalized_text).intent)
\* C14: a failure in one segment does not abort process: the call returns,
\* and every segment of the email appears in the returned list.
C14_SiblingsSurvive ==
  SessionCalled =>
    /\ raised = ""
    /\ Len(result.segments) = Len(RawSegments(raw_email))

\* The keys a hotel configuration must have.
RequiredKeys == {"child_adult_age", "group_booking", "default_room_occupancy"}
\* C15: the construction fails when the file is missing or a required key is
\* absent: no instance is ready, and none is called, with such a file.
C15_ConstructionValidates ==
  (op = "session" /\ (pipeline = "ready" \/ calls > 0)) =>
    /\ "file_not_found" \notin DOMAIN config_file
    /\ RequiredKeys \subseteq DOMAIN config_file

\* segment has returned for a booking request.
Segmented == SegmentReturned /\ intent = "booking_request"
\* The character offset c falls between two tokens of t; the token that
\* starts there (Len(t) + 1 at the end of the text).
Aligned(t, c) == \E i \in 1..(Len(t) + 1) : Offsets(t)[i] = c
TokenAt(t, c) == CHOOSE i \in 1..(Len(t) + 1) : Offsets(t)[i] = c
\* t[first:last].strip() = piece.  A slice that cuts a word is not the text
\* of a segment, which is made of whole words of t.
SliceIs(t, first, last, piece) ==
  /\ Aligned(t, first) /\ Aligned(t, last) /\ first <= last
  /\ Strip(SubSeq(t, TokenAt(t, first), TokenAt(t, last) - 1)) = piece
\* C16: for every returned segment, start_char and end_char are offsets
\* into the input such that text[start_char:end_char], stripped, is the text
\* of the segment.
C16_OffsetsGiveTheText ==
  Segmented =>
    \A i \in 1..Len(segments) :
      SliceIs(text, segments[i].start_char, segments[i].end_char,
              segments[i].text)

\* The words of a text that are neither whitespace nor part of a separator
\* marker (the marker word and the punctuation that may follow it).
IsContent(tok) ==
  /\ ~IsWs(tok)
  /\ Lower(tok) \notin {"also", "additionally", "furthermore"}
  /\ tok \notin {",", ";", ":"}
Content(t) == SelectSeq(t, IsContent)
RECURSIVE TextsFrom(_, _)
TextsFrom(segs, i) ==
  IF i > Len(segs) THEN << >> ELSE segs[i].text \o TextsFrom(segs, i + 1)
\* C17: the segments partition the text: what is neither whitespace nor a
\* separator marker lies in the text of exactly one segment, so the texts of
\* the segments, one after the other, are the text without its markers.
C17_SegmentsPartitionTheText ==
  Segmented => Content(TextsFrom(segments, 1)) = Content(text)

\* C18: the segments are numbered 0..n-1 in list order, each lies within
\* the text (0 <= start_char <= end_char <= len(text)), and each ends no
\* later than the next one starts.
C18_SegmentsInOrder ==
  Segmented =>
    /\ \A i \in 1..Len(segments) :
         /\ segments[i].segment_id = i - 1
         /\ 0 <= segments[i].start_char
         /\ segments[i].start_char <= segments[i].end_char
         /\ segments[i].end_char <= CharLen(text)
    /\ \A i \in 1..(Len(segments) - 1) :
         segments[i].end_char <= segments[i + 1].start_char
\* segment has returned three numbered segments for a text that has a line
\* before the first item, and the second starts where the first ends plus
\* the line break.
C18_Witness ==
  /\ Segmented
  /\ Len(segments) = 3
  /\ segments[1].method = "numbered_list"
  /\ ~NumberedLine(SplitLines(text)[1])
  /\ segments[2].start_char = segments[1].end_char + 1
  /\ segments[3].end_char < CharLen(text)

\* The paragraph-leading separator markers of a text: the tokens (line
\* breaks) at which one of the three patterns matches.
MarkerEnd(t, i) ==
  IF SeparatorAt(t, i, "also") # 0 THEN SeparatorAt(t, i, "also")
  ELSE IF SeparatorAt(t, i, "additionally") # 0
  THEN SeparatorAt(t, i, "additionally")
  ELSE SeparatorAt(t, i, "furthermore")
Markers(t) == {i \in 1..Len(t) : MarkerEnd(t, i) # 0}
\* Every marker has text before it and after it that is no marker.
MarkersApart(t) ==
  \A i \in Markers(t) :
    /\ \E k \in 1..(i - 1) : ~IsWs(t[k])
    /\ MarkerEnd(t, i) <= Len(t)
    /\ MarkerEnd(t, i) \notin Markers(t)
    /\ \A j \in Markers(t) : ~(i < j /\ j < MarkerEnd(t, i))
\* C19: when the separator family gives the segments, the text is split at
\* every paragraph-leading "also", "additionally" and "furthermore": m
\* markers in all, each with text before and after it, give m + 1 segments.
C19_SplitAtEveryMarker ==
  (Segmented /\ segments[1].method = "separator" /\ MarkersApart(text)) =>
    Len(segments) = Cardinality(Markers(text)) + 1

\* normalize has returned.
NormalizeReturned == op = "normalize" /\ Returned("normalize")
\* The patterns a reason removes.
PatternsOf(reason) ==
  IF reason = "signature" THEN SignaturePatterns
  ELSE IF reason = "disclaimer" THEN DisclaimerPatterns
  ELSE GreetingPatterns
\* raw[first:last] is a match of one of the patterns.
SliceMatches(raw, first, last, patterns) ==
  /\ Aligned(raw, first) /\ Aligned(raw, last) /\ first < last
  /\ \E p \in 1..Len(patterns) :
       LowerText(SubSeq(raw, TokenAt(raw, first), TokenAt(raw, last) - 1))
         = patterns[p]
\* C20: every (start, end, reason) of spans_removed holds offsets into the
\* original email: raw_email[start:end] is the text removed for that reason,
\* also when several patterns or several passes each remove text.
C20_SpansPointIntoTheOriginal ==
  NormalizeReturned =>
    \A k \in 1..Len(normalized.spans_removed) :
      SliceMatches(raw_email, normalized.spans_removed[k][1],
                   normalized.spans_removed[k][2],
                   PatternsOf(normalized.spans_removed[k][3]))

\* C21: the whitespace and trim stage is idempotent: when normalize removed
\* no span, normalizing the text it returned gives that text again.
C21_WhitespaceIdempotent ==
  (NormalizeReturned /\ normalized.spans_removed = << >>) =>
    NormalizeWith(normalized.normalized_text, options).normalized_text
      = normalized.normalized_text

\* The passes of normalize in the order the contract gives them, and the
\* position of a span reason or a stage name in that order.
PassOrder ==
  <<"signature", "disclaimer", "greeting", "whitespace">>
PassOf(name) ==
  CHOOSE p \in 1..Len(PassOrder) :
    name \in {PassOrder[p], PassOrder[p] \o "_removal",
              PassOrder[p] \o "_normalization"}
\* The reasons of the spans go up in pass order.
SpansInPassOrder(spans) ==
  \A i \in 1..Len(spans) : \A j \in (i + 1)..Len(spans) :
    PassOf(spans[i][3]) <= PassOf(spans[j][3])
\* The stage names go strictly up in pass order.
StagesInPassOrder(applied) ==
  \A i \in 1..Len(applied) : \A j \in (i + 1)..Len(applied) :
    PassOf(applied[i]) < PassOf(applied[j])
HasSpan(spans, reason) == \E k \in 1..Len(spans) : spans[k][3] = reason
Lists(applied, stage) == \E k \in 1..Len(applied) : applied[k] = stage
\* The text the whitespace pass of normalize(raw) is given.
BeforeWhitespace(raw, opts) ==
  IF opts.remove_greetings
  THEN remove_greetings(remove_disclaimers(remove_signatures(raw)[1])[1])[1]
  ELSE remove_disclaimers(remove_signatures(raw)[1])[1]
WhitespaceHadEffect(raw, opts) ==
  normalize_whitespace(BeforeWhitespace(raw, opts), MaxConsecutiveNewlines,
                       TabToSpaces) # BeforeWhitespace(raw, opts)
\* Each removal stage is listed exactly when it removed a span.
RemovalsListed(out) ==
  /\ Lists(out.applied, "signature_removal")
       <=> HasSpan(out.spans_removed, "signature")
  /\ Lists(out.applied, "disclaimer_removal")
       <=> HasSpan(out.spans_removed, "disclaimer")
  /\ Lists(out.applied, "greeting_removal")
       <=> HasSpan(out.spans_removed, "greeting")
ValidateReturned == op = "validate_booking" /\ Returned("validate_booking")
\* The number of entries of a list that are the message m.
Count(list, m) == Cardinality({k \in 1..Len(list) : list[k] = m})
\* The departure is on or before the arrival, as calendar days.
DepartureNotAfter(seg) ==
  /\ seg.arrival_date # NoDate /\ seg.departure_date # NoDate
  /\ Strptime(seg.departure_date) <= Strptime(seg.arrival_date)
\* Room r (counted from 1) has no guest.
Guestless(seg, r) ==
  (IF seg.rooms[r].adults = None THEN 0 ELSE seg.rooms[r].adults)
    + seg.rooms[r].nchildren = 0
\* C23: validate_booking returns without raising; the list holds the
\* departure message once exactly when both dates are present and the
\* departure is not after the arrival, one "No guests specified" message for
\* each room without guests, and nothing else.
C23_ValidationFindings ==
  ValidateReturned =>
    /\ raised = ""
    /\ Count(errors, DepartureMessage)
         = (IF DepartureNotAfter(booking) THEN 1 ELSE 0)
    /\ \A r \in 1..Len(booking.rooms) :
         Count(errors, RoomMessage(r - 1))
           = (IF Guestless(booking, r) THEN 1 ELSE 0)
    /\ Len(errors)
         = Count(errors, DepartureMessage)
           + Cardinality({r \in 1..Len(booking.rooms) : Guestless(booking, r)})
\* validate_booking has returned both kinds of message: a departure on the
\* day of arrival, and a second room without guests after a room with guests.
C23_Witness ==
  /\ ValidateReturned
  /\ booking.arrival_date # NoDate
  /\ booking.departure_date = booking.arrival_date
  /\ Len(booking.rooms) = 2
  /\ errors = <<DepartureMessage, RoomMessage(1)>>

\* C24: every room candidate of room-type extraction and every room process
\* returns has a quantity of at least 1, whatever number stands before the
\* room type.
C24_QuantityAtLeastOne ==
  ProcessReturned =>
    \A s \in 1..Len(result.segments) :
      /\ \A c \in 1..Len(entities[s].room_types) :
           entities[s].room_types[c].quantity >= 1
      /\ \A r \in 1..Len(result.segments[s].rooms) :
           result.segments[s].rooms[r].quantity >= 1

\* classify has returned.
ClassifyReturned == op = "classify" /\ Returned("classify")
\* The six intent labels.
IntentLabels ==
  {"booking_request", "booking_modification", "cancellation", "price_inquiry",
   "availability_check", "other"}
\* The text contains a keyword of the intent (of rule r of the table).
HasKeywordOf(t, label) ==
  \E r \in 1..Len(IntentRules) :
    IntentRules[r][1] = label /\ RuleMatches(LowerText(t), IntentRules[r])
Answers(label, confidence) ==
  classified.intent = label /\ classified.confidence = confidence
\* C26: with no learned model classify answers by the rules (method "rule")
\* with one of the six labels: a text containing "cancel" or "cancellation"
\* is a cancellation with confidence 0.80, a text containing a booking
\* keyword a booking_request with 0.75, price keywords give price_inquiry
\* with 0.70, availability keywords availability_check with 0.70, and a text
\* with none of the keywords gives other with 0.5 (confidences in hundredths).
C26_KeywordsDecideTheIntent ==
  ClassifyReturned =>
    /\ classified.method = "rule"
    /\ classified.intent \in IntentLabels
    /\ HasKeywordOf(text, "cancellation") => Answers("cancellation", 80)
    /\ HasKeywordOf(text, "booking_request") => Answers("booking_request", 75)
    /\ HasKeywordOf(text, "price_inquiry") => Answers("price_inquiry", 70)
    /\ HasKeywordOf(text, "availability_check")
         => Answers("availability_check", 70)
    /\ (\A label \in IntentLabels : ~HasKeywordOf(text, label))
         => Answers("other", 50)

\* The three confidences of a date result lie in [0.0, 1.0] (tenths).
DateConfidencesInRange(d) ==
  /\ d.confidence.arrival_date \in 0..10
  /\ d.confidence.departure_date \in 0..10
  /\ d.confidence.nights \in 0..10
\* C25: every confidence the core emits lies in [0.0, 1.0]: the three date
\* confidences of extract, also after _fill_missing_date_field has filled a
\* field, the confidence of every room candidate (tenths), and the confidence
\* of the rule-based intent classifier (hundredths).
C25_ConfidencesInRange ==
  /\ ProcessReturned =>
       \A s \in 1..Len(entities) :
         /\ DateConfidencesInRange(entities[s].dates)
         /\ \A c \in 1..Len(entities[s].room_types) :
              entities[s].room_types[c].confidence \in 0..10
  /\ (op = "dates" /\ Returned("_fill_missing_date_field")) =>
       DateConfidencesInRange(filled)
  /\ ClassifyReturned => classified.confidence \in 0..100
\* process has returned a segment whose arrival was classified by a keyword,
\* whose departure was filled from the nights, and which has a room
\* candidate with a stated quantity.
C25_Witness ==
  /\ ProcessReturned
  /\ \E s \in 1..Len(entities) :
       /\ entities[s].dates.confidence.arrival_date = 6
       /\ entities[s].dates.confidence.departure_date = 8
       /\ entities[s].dates.confidence.nights = 10
       /\ \E c \in 1..Len(entities[s].room_types) :
            entities[s].room_types[c].confidence = 9

\* _fill_missing_date_field has been called on the dict of the dates.
FillCalled ==
  op \in {"dates", "_fill_missing_date_field"}
    /\ Returned("_fill_missing_date_field")
\* The dict the call was given.
Given == DatesDict(dates.arrival, dates.departure, dates.nights)
\* The dict is as it was given but for the field that was derived.
OnlyChanged(field) ==
  /\ \A f \in {"arrival_date", "departure_date", "nights"} \ {field} :
       filled[f] = Given[f] /\ filled.confidence[f] = Given.confidence[f]
\* C27: when exactly two of arrival, departure and nights are known, the
\* third is derived and nothing else changes: departure = arrival + nights
\* with confidence 0.8, arrival = departure - nights with confidence 0.8,
\* nights = departure - arrival with confidence 0.9 only when positive and
\* absent otherwise; with fewer than two known nothing is derived; and
\* deriving nights again from the arrival and the derived departure gives
\* the nights back.
C27_ThirdFieldDerived ==
  FillCalled =>
    /\ raised = ""
    /\ (dates.arrival # NoDay /\ dates.nights # None /\ dates.departure = NoDay)
         => /\ OnlyChanged("departure_date")
            /\ filled.departure_date # NoDate
            /\ Strptime(filled.departure_date) = dates.arrival + dates.nights
            /\ filled.confidence.departure_date = 8
            /\ _fill_missing_date_field(
                 [filled EXCEPT !.nights = None]).nights = dates.nights
    /\ (dates.departure # NoDay /\ dates.nights # None /\ dates.arrival = NoDay)
         => /\ OnlyChanged("arrival_date")
            /\ filled.arrival_date # NoDate
            /\ Strptime(filled.arrival_date) = dates.departure - dates.nights
            /\ filled.confidence.arrival_date = 8
    /\ (dates.arrival # NoDay /\ dates.departure # NoDay /\ dates.nights = None)
         => /\ OnlyChanged("nights")
            /\ IF dates.departure - dates.arrival > 0
               THEN /\ filled.nights = dates.departure - dates.arrival
                    /\ filled.confidence.nights = 9
               ELSE filled.nights = None /\ filled.confidence.nights = 0
    /\ Cardinality({f \in {"arrival_date", "departure_date"} : Given[f] # NoDate})
           + (IF dates.nights # None THEN 1 ELSE 0) < 2
         => filled = Given

\* The arrival and departure scores of the candidates of a text: the number
\* of keyword patterns of either list found in the window of each.
WindowScores(t, off, c) ==
  <<KeywordScore(t, off, Max(0, c.position - ContextChars),
                 Min(off[Len(t) + 1], c.position + c.rawlen + ContextChars),
                 ARRIVAL_KEYWORDS, ArrivalCuts),
    KeywordScore(t, off, Max(0, c.position - ContextChars),
                 Min(off[Len(t) + 1], c.position + c.rawlen + ContextChars),
                 DEPARTURE_KEYWORDS, DepartureCuts)>>
ScoresOf(t, cands) ==
  List([k \in 1..Len(cands) |-> WindowScores(LowerText(t), Offsets(t), cands[k])])
\* The class of every candidate, in text order, by the rule of the contract.
RECURSIVE ClassesBy(_, _, _)
ClassesBy(scores, k, classes) ==
  IF k > Len(scores) THEN classes
  ELSE ClassesBy(scores, k + 1,
         Append(classes,
           IF scores[k][1] > scores[k][2] THEN "arrival"
           ELSE IF scores[k][2] > scores[k][1] THEN "departure"
           ELSE IF \A j \in 1..Len(classes) : classes[j] # "arrival"
           THEN "arrival"
           ELSE IF \A j \in 1..Len(classes) : classes[j] # "departure"
           THEN "departure"
           ELSE "discarded"))
\* The confidence of a candidate with these scores, in tenths.
ConfidenceBy(score) ==
  IF score[1] = score[2] THEN 5 ELSE Min(9, 5 + Max(score[1], score[2]))
\* The members of a class, and the best of them: the highest confidence,
\* the earliest among equals.
MembersOf(classes, class) == {k \in 1..Len(classes) : classes[k] = class}
BestOf(scores, members) ==
  CHOOSE k \in members :
    \A j \in members :
      \/ ConfidenceBy(scores[j]) < ConfidenceBy(scores[k])
      \/ ConfidenceBy(scores[j]) = ConfidenceBy(scores[k]) /\ k <= j
\* The date field of a date result is the best member of the class; with no
\* member the field is absent or was filled in from the two other fields.
ReportsBest(d, field, cands, scores, members) ==
  IF members # {}
  THEN /\ d[field] = cands[BestOf(scores, members)].date
       /\ d.confidence[field] = ConfidenceBy(scores[BestOf(scores, members)])
  ELSE d.confidence[field] \in {0, 8}
ReportsBestOfBoth(d, cands, scores, classes) ==
  /\ ReportsBest(d, "arrival_date", cands, scores, MembersOf(classes, "arrival"))
  /\ ReportsBest(d, "departure_date", cands, scores,
                 MembersOf(classes, "departure"))
ClassifiedByContract(d, cands, scores) ==
  ReportsBestOfBoth(d, cands, scores, ClassesBy(scores, 1, << >>))
DatesByContract(d, t, cands) == ClassifiedByContract(d, cands, ScoresOf(t, cands))
\* C28: the date candidates of a segment are classified in text order: more
\* arrival than departure keyword patterns in the window give an arrival
\* (and symmetrically a departure) with confidence min(0.9, 0.5 + 0.1 x
\* score); a tie gives an arrival with 0.5 if there is none yet, else a
\* departure with 0.5 if there is none yet, else nothing; the arrival and
\* the departure reported are the most confident of their class, the
\* earliest among equals.
C28_DatesClassifiedInTextOrder ==
  ProcessReturned =>
    \A s \in 1..Len(entities) :
      DatesByContract(entities[s].dates, RawSegments(raw_email)[s].text,
                      _find_date_candidates(RawSegments(raw_email)[s].text,
                                            reference_date, now[1]))
\* The candidates of segment s, and their classes.
CandidatesOf(s) ==
  _find_date_candidates(RawSegments(raw_email)[s].text, reference_date, now[1])
ClassesOf(s) ==
  ClassesBy(ScoresOf(RawSegments(raw_email)[s].text, CandidatesOf(s)), 1, << >>)
\* process has returned a segment with two candidates, the first an arrival
\* by a tie and the second an arrival by a keyword, and the second is the
\* arrival reported.
C28_Witness ==
  /\ ProcessReturned
  /\ \E s \in 1..Len(entities) :
       /\ ClassesOf(s) = <<"arrival", "arrival">>
       /\ CandidatesOf(s)[1].date # CandidatesOf(s)[2].date
       /\ entities[s].dates.arrival_date = CandidatesOf(s)[2].date
       /\ entities[s].dates.confidence.arrival_date = 6

\* The text of segment s as the extractor searches it (text.lower()).
LowerSegment(s) == LowerText(RawSegments(raw_email)[s].text)
\* The numbers an explicit "N adults", "N people" or "N guests" gives.
ExplicitCounts(t) ==
  {FirstCount(t, "adult"), FirstCount(t, "peopl"), FirstCount(t, "guest")}
    \ {None}
IsSolo(t) == \E p \in 1..Len(SoloPhrases) : HasPhrase(t, SoloPhrases[p])
\* The adult count decided by the first rule of the table that matches.
AdultsByTable(t, adults) ==
  IF ExplicitCounts(t) # {} THEN adults \in ExplicitCounts(t)
  ELSE IF IsSolo(t) THEN adults = 1
  ELSE IF WeAre(t) # None
  THEN adults = (IF MentionsChild(t) THEN None ELSE WeAre(t))
  ELSE IF BookingPhrase(t) /\ ~MentionsChild(t) THEN adults = 1
  ELSE adults = None
CombinedMatches(t) == {i \in 1..Len(t) : ChildrenWithAgesAt(t, i).ok}
CountMatches(t) == {i \in 1..Len(t) : ChildCountAt(t, i)}
IndividualMatches(t) == FindIter([i \in 1..Len(t) |-> IndividualAgeAt(t, i)[2]])
YearOldMatches(t) == Sorted({i \in 1..Len(t) : YearOldAt(t, i)})
\* The child records of the one source the order of specificity selects.
ChildrenOfOneSource(t) ==
  IF CombinedMatches(t) # {}
  THEN ChildrenOf(ChildrenWithAgesAt(t, SetMin(CombinedMatches(t))))
  ELSE IF CountMatches(t) # {}
  THEN NoAgeChildren(NumVal[t[SetMin(CountMatches(t))]])
  ELSE IF IndividualMatches(t) # << >>
  THEN IndividualAges(t, IndividualMatches(t), 1, << >>)
  ELSE YearOlds(t, YearOldMatches(t), 1, << >>)
\* C30: the children come from exactly one source, the first that matches
\* of: "N children/kids (ages ...)", one record per listed age padded with
\* age-less records up to N; a bare "N children/kids", N age-less records;
\* "child (age N)" mentions; "N year old" mentions under 18, each age once.
\* Records of two sources are never combined.
C30_ChildrenFromOneSource ==
  ProcessReturned =>
    \A s \in 1..Len(entities) :
      ChildrenOfGuests(s) = ChildrenOfOneSource(LowerSegment(s))

====
